---------------------------- MODULE Spec2Model ----------------------------
(***************************************************************************)
(* Model of the Reddit RSS digest (rss_digest.py): one batch run loads the *)
(* persisted run state, ingests the configured feeds entry by entry,       *)
(* classifies, scores and ranks the admitted entries, renders the report   *)
(* sections, dispatches the e-mail and only then commits the run state.    *)
(*                                                                         *)
(* Python strings are modelled as tuples of characters, so that strip(),   *)
(* lower(), repr() and the substring tests are computed, not assumed.      *)
(* A missing attribute (None) and the empty string are both the empty      *)
(* tuple: the code only ever tests them for truthiness.                    *)
(***************************************************************************)
EXTENDS Integers, Sequences, FiniteSets, TLC

-----------------------------------------------------------------------------
(* Strings.                                                                *)

\* A character is a string: itself when it is printable ASCII other than the
\* grave accent, or the tab, the newline, the form feed or the carriage
\* return; otherwise "U+" with its code point in at least four capital
\* hexadecimal digits, "U+00C9" for the capital E with an acute accent.

\* The characters 32 to 95.
AsciiLow ==
    " !\"#$%&'()*+,-./0123456789:;<=>?@ABCDEFGHIJKLMNOPQRSTUVWXYZ[\\]^_"

\* The characters 97 to 126.
AsciiHigh == "abcdefghijklmnopqrstuvwxyz{|}~"

HexDigits == "0123456789ABCDEF"

\* The characters of a text, one by one.
Chars(text) == [i \in 1..Len(text) |-> SubSeq(text, i, i)]

\* The place of a character in a text that holds it once.
IndexIn(text, c) == CHOOSE i \in 1..Len(text) : SubSeq(text, i, i) = c

\* The text holds the character.
HoldsChar(text, c) == \E i \in 1..Len(text) : SubSeq(text, i, i) = c

RECURSIVE HexValue(_)
HexValue(digits) ==
    IF Len(digits) = 0 THEN 0
    ELSE 16 * HexValue(SubSeq(digits, 1, Len(digits) - 1))
            + IndexIn(HexDigits, SubSeq(digits, Len(digits), Len(digits))) - 1

\* At least w hexadecimal digits of n.
RECURSIVE HexOf(_, _)
HexOf(n, w) ==
    IF n = 0 /\ w <= 0 THEN ""
    ELSE HexOf(n \div 16, w - 1) \o SubSeq(HexDigits, (n % 16) + 1, (n % 16) + 1)

\* ord(c)
ord(c) ==
    IF Len(c) > 1 THEN HexValue(SubSeq(c, 3, Len(c)))
    ELSE IF c = "\t" THEN 9
    ELSE IF c = "\n" THEN 10
    ELSE IF c = "\f" THEN 12
    ELSE IF c = "\r" THEN 13
    ELSE IF HoldsChar(AsciiHigh, c) THEN 96 + IndexIn(AsciiHigh, c)
    ELSE 31 + IndexIn(AsciiLow, c)

\* chr(n)
chr(n) ==
    IF n = 9 THEN "\t"
    ELSE IF n = 10 THEN "\n"
    ELSE IF n = 12 THEN "\f"
    ELSE IF n = 13 THEN "\r"
    ELSE IF 32 <= n /\ n <= 95 THEN SubSeq(AsciiLow, n - 31, n - 31)
    ELSE IF 97 <= n /\ n <= 126 THEN SubSeq(AsciiHigh, n - 96, n - 96)
    ELSE "U+" \o HexOf(n, 4)

\* n lies in one of the ranges <<first, last>>.
InRanges(n, ranges) ==
    \E k \in 1..Len(ranges) : ranges[k][1] <= n /\ n <= ranges[k][2]

\* A table of numbers written as text: rows of w numbers, each number in six
\* hexadecimal digits. Rows lo to hi of it.
RECURSIVE Rows(_, _, _, _)
Rows(text, w, lo, hi) ==
    IF lo > hi THEN <<>>
    ELSE IF lo = hi
    THEN << [j \in 1..w |->
               HexValue(SubSeq(text, 6 * (w * (lo - 1) + j) - 5,
                                     6 * (w * (lo - 1) + j)))] >>
    ELSE Rows(text, w, lo, (lo + hi) \div 2)
            \o Rows(text, w, (lo + hi) \div 2 + 1, hi)

\* All rows of the table.
Table(text, w) == Rows(text, w, 1, Len(text) \div (6 * w))

\* The characters str.lower() changes into one other character (Unicode
\* 14.0, the tables of Python 3.11), as rows <<first, last, step, to>>:
\* first, first + step, ..., last become to, to + step, ...
LowerRangesText ==
    "00004100005A0000010000610000C00000D60000010000E00000D80000DE0000010000F8"
        \o "00010000012E00000200010100013200013600000200013300013900014700000200013A"
        \o "00014A00017600000200014B0001780001780000010000FF00017900017D00000200017A"
        \o "000181000181000001000253000182000184000002000183000186000186000001000254"
        \o "00018700018700000100018800018900018A00000100025600018B00018B00000100018C"
        \o "00018E00018E0000010001DD00018F00018F00000100025900019000019000000100025B"
        \o "000191000191000001000192000193000193000001000260000194000194000001000263"
        \o "000196000196000001000269000197000197000001000268000198000198000001000199"
        \o "00019C00019C00000100026F00019D00019D00000100027200019F00019F000001000275"
        \o "0001A00001A40000020001A10001A60001A60000010002800001A70001A70000010001A8"
        \o "0001A90001A90000010002830001AC0001AC0000010001AD0001AE0001AE000001000288"
        \o "0001AF0001AF0000010001B00001B10001B200000100028A0001B30001B50000020001B4"
        \o "0001B70001B70000010002920001B80001B80000010001B90001BC0001BC0000010001BD"
        \o "0001C40001C40000010001C60001C50001C50000010001C60001C70001C70000010001C9"
        \o "0001C80001C80000010001C90001CA0001CA0000010001CC0001CB0001DB0000020001CC"
        \o "0001DE0001EE0000020001DF0001F10001F10000010001F30001F20001F40000020001F3"
        \o "0001F60001F60000010001950001F70001F70000010001BF0001F800021E0000020001F9"
        \o "00022000022000000100019E00022200023200000200022300023A00023A000001002C65"
        \o "00023B00023B00000100023C00023D00023D00000100019A00023E00023E000001002C66"
        \o "000241000241000001000242000243000243000001000180000244000244000001000289"
        \o "00024500024500000100028C00024600024E000002000247000370000372000002000371"
        \o "00037600037600000100037700037F00037F0000010003F30003860003860000010003AC"
        \o "00038800038A0000010003AD00038C00038C0000010003CC00038E00038F0000010003CD"
        \o "0003910003A10000010003B10003A30003AB0000010003C30003CF0003CF0000010003D7"
        \o "0003D80003EE0000020003D90003F40003F40000010003B80003F70003F70000010003F8"
        \o "0003F90003F90000010003F20003FA0003FA0000010003FB0003FD0003FF00000100037B"
        \o "00040000040F00000100045000041000042F000001000430000460000480000002000461"
        \o "00048A0004BE00000200048B0004C00004C00000010004CF0004C10004CD0000020004C2"
        \o "0004D000052E0000020004D10005310005560000010005610010A00010C5000001002D00"
        \o "0010C70010C7000001002D270010CD0010CD000001002D2D0013A00013EF00000100AB70"
        \o "0013F00013F50000010013F8001C90001CBA0000010010D0001CBD001CBF0000010010FD"
        \o "001E00001E94000002001E01001E9E001E9E0000010000DF001EA0001EFE000002001EA1"
        \o "001F08001F0F000001001F00001F18001F1D000001001F10001F28001F2F000001001F20"
        \o "001F38001F3F000001001F30001F48001F4D000001001F40001F59001F5F000002001F51"
        \o "001F68001F6F000001001F60001F88001F8F000001001F80001F98001F9F000001001F90"
        \o "001FA8001FAF000001001FA0001FB8001FB9000001001FB0001FBA001FBB000001001F70"
        \o "001FBC001FBC000001001FB3001FC8001FCB000001001F72001FCC001FCC000001001FC3"
        \o "001FD8001FD9000001001FD0001FDA001FDB000001001F76001FE8001FE9000001001FE0"
        \o "001FEA001FEB000001001F7A001FEC001FEC000001001FE5001FF8001FF9000001001F78"
        \o "001FFA001FFB000001001F7C001FFC001FFC000001001FF30021260021260000010003C9"
        \o "00212A00212A00000100006B00212B00212B0000010000E500213200213200000100214E"
        \o "00216000216F0000010021700021830021830000010021840024B60024CF0000010024D0"
        \o "002C00002C2F000001002C30002C60002C60000001002C61002C62002C6200000100026B"
        \o "002C63002C63000001001D7D002C64002C6400000100027D002C67002C6B000002002C68"
        \o "002C6D002C6D000001000251002C6E002C6E000001000271002C6F002C6F000001000250"
        \o "002C70002C70000001000252002C72002C72000001002C73002C75002C75000001002C76"
        \o "002C7E002C7F00000100023F002C80002CE2000002002C81002CEB002CED000002002CEC"
        \o "002CF2002CF2000001002CF300A64000A66C00000200A64100A68000A69A00000200A681"
        \o "00A72200A72E00000200A72300A73200A76E00000200A73300A77900A77B00000200A77A"
        \o "00A77D00A77D000001001D7900A77E00A78600000200A77F00A78B00A78B00000100A78C"
        \o "00A78D00A78D00000100026500A79000A79200000200A79100A79600A7A800000200A797"
        \o "00A7AA00A7AA00000100026600A7AB00A7AB00000100025C00A7AC00A7AC000001000261"
        \o "00A7AD00A7AD00000100026C00A7AE00A7AE00000100026A00A7B000A7B000000100029E"
        \o "00A7B100A7B100000100028700A7B200A7B200000100029D00A7B300A7B300000100AB53"
        \o "00A7B400A7C200000200A7B500A7C400A7C400000100A79400A7C500A7C5000001000282"
        \o "00A7C600A7C6000001001D8E00A7C700A7C900000200A7C800A7D000A7D000000100A7D1"
        \o "00A7D600A7D800000200A7D700A7F500A7F500000100A7F600FF2100FF3A00000100FF41"
        \o "0104000104270000010104280104B00104D30000010104D801057001057A000001010597"
        \o "01057C01058A0000010105A301058C0105920000010105B30105940105950000010105BB"
        \o "010C80010CB2000001010CC00118A00118BF0000010118C0016E40016E5F000001016E60"
        \o "01E90001E92100000101E922"

LowerRanges == Table(LowerRangesText, 4)

\* The cased characters that are not case-ignorable, as rows <<first, last>>.
CasedText ==
    "00004100005A00006100007A0000AA0000AA0000B50000B50000BA0000BA0000C00000D6"
        \o "0000D80000F60000F80001BA0001BC0001BF0001C40002930002950002AF000370000373"
        \o "00037600037700037B00037D00037F00037F00038600038600038800038A00038C00038C"
        \o "00038E0003A10003A30003F50003F700048100048A00052F000531000556000560000588"
        \o "0010A00010C50010C70010C70010CD0010CD0010D00010FA0010FD0010FF0013A00013F5"
        \o "0013F80013FD001C80001C88001C90001CBA001CBD001CBF001D00001D2B001D6B001D77"
        \o "001D79001D9A001E00001F15001F18001F1D001F20001F45001F48001F4D001F50001F57"
        \o "001F59001F59001F5B001F5B001F5D001F5D001F5F001F7D001F80001FB4001FB6001FBC"
        \o "001FBE001FBE001FC2001FC4001FC6001FCC001FD0001FD3001FD6001FDB001FE0001FEC"
        \o "001FF2001FF4001FF6001FFC00210200210200210700210700210A002113002115002115"
        \o "00211900211D00212400212400212600212600212800212800212A00212D00212F002134"
        \o "00213900213900213C00213F00214500214900214E00214E00216000217F002183002184"
        \o "0024B60024E9002C00002C7B002C7E002CE4002CEB002CEE002CF2002CF3002D00002D25"
        \o "002D27002D27002D2D002D2D00A64000A66D00A68000A69B00A72200A76F00A77100A787"
        \o "00A78B00A78E00A79000A7CA00A7D000A7D100A7D300A7D300A7D500A7D900A7F500A7F6"
        \o "00A7FA00A7FA00AB3000AB5A00AB6000AB6800AB7000ABBF00FB0000FB0600FB1300FB17"
        \o "00FF2100FF3A00FF4100FF5A01040001044F0104B00104D30104D80104FB01057001057A"
        \o "01057C01058A01058C0105920105940105950105970105A10105A30105B10105B30105B9"
        \o "0105BB0105BC010C80010CB2010CC0010CF20118A00118DF016E40016E7F01D40001D454"
        \o "01D45601D49C01D49E01D49F01D4A201D4A201D4A501D4A601D4A901D4AC01D4AE01D4B9"
        \o "01D4BB01D4BB01D4BD01D4C301D4C501D50501D50701D50A01D50D01D51401D51601D51C"
        \o "01D51E01D53901D53B01D53E01D54001D54401D54601D54601D54A01D55001D55201D6A5"
        \o "01D6A801D6C001D6C201D6DA01D6DC01D6FA01D6FC01D71401D71601D73401D73601D74E"
        \o "01D75001D76E01D77001D78801D78A01D7A801D7AA01D7C201D7C401D7CB01DF0001DF09"
        \o "01DF0B01DF1E01E90001E94301F13001F14901F15001F16901F17001F189"

Cased == Table(CasedText, 2)

\* The case-ignorable characters, as rows <<first, last>>.
CaseIgnorableText ==
    "00002700002700002E00002E00003A00003A00005E00005E0000600000600000A80000A8"
        \o "0000AD0000AD0000AF0000AF0000B40000B40000B70000B80002B000036F000374000375"
        \o "00037A00037A00038400038500038700038700048300048900055900055900055F00055F"
        \o "0005910005BD0005BF0005BF0005C10005C20005C40005C50005C70005C70005F40005F4"
        \o "00060000060500061000061A00061C00061C00064000064000064B00065F000670000670"
        \o "0006D60006DD0006DF0006E80006EA0006ED00070F00070F00071100071100073000074A"
        \o "0007A60007B00007EB0007F50007FA0007FA0007FD0007FD00081600082D00085900085B"
        \o "00088800088800089000089100089800089F0008C900090200093A00093A00093C00093C"
        \o "00094100094800094D00094D000951000957000962000963000971000971000981000981"
        \o "0009BC0009BC0009C10009C40009CD0009CD0009E20009E30009FE0009FE000A01000A02"
        \o "000A3C000A3C000A41000A42000A47000A48000A4B000A4D000A51000A51000A70000A71"
        \o "000A75000A75000A81000A82000ABC000ABC000AC1000AC5000AC7000AC8000ACD000ACD"
        \o "000AE2000AE3000AFA000AFF000B01000B01000B3C000B3C000B3F000B3F000B41000B44"
        \o "000B4D000B4D000B55000B56000B62000B63000B82000B82000BC0000BC0000BCD000BCD"
        \o "000C00000C00000C04000C04000C3C000C3C000C3E000C40000C46000C48000C4A000C4D"
        \o "000C55000C56000C62000C63000C81000C81000CBC000CBC000CBF000CBF000CC6000CC6"
        \o "000CCC000CCD000CE2000CE3000D00000D01000D3B000D3C000D41000D44000D4D000D4D"
        \o "000D62000D63000D81000D81000DCA000DCA000DD2000DD4000DD6000DD6000E31000E31"
        \o "000E34000E3A000E46000E4E000EB1000EB1000EB4000EBC000EC6000EC6000EC8000ECD"
        \o "000F18000F19000F35000F35000F37000F37000F39000F39000F71000F7E000F80000F84"
        \o "000F86000F87000F8D000F97000F99000FBC000FC6000FC600102D001030001032001037"
        \o "00103900103A00103D00103E00105800105900105E001060001071001074001082001082"
        \o "00108500108600108D00108D00109D00109D0010FC0010FC00135D00135F001712001714"
        \o "0017320017330017520017530017720017730017B40017B50017B70017BD0017C60017C6"
        \o "0017C90017D30017D70017D70017DD0017DD00180B00180F001843001843001885001886"
        \o "0018A90018A900192000192200192700192800193200193200193900193B001A17001A18"
        \o "001A1B001A1B001A56001A56001A58001A5E001A60001A60001A62001A62001A65001A6C"
        \o "001A73001A7C001A7F001A7F001AA7001AA7001AB0001ACE001B00001B03001B34001B34"
        \o "001B36001B3A001B3C001B3C001B42001B42001B6B001B73001B80001B81001BA2001BA5"
        \o "001BA8001BA9001BAB001BAD001BE6001BE6001BE8001BE9001BED001BED001BEF001BF1"
        \o "001C2C001C33001C36001C37001C78001C7D001CD0001CD2001CD4001CE0001CE2001CE8"
        \o "001CED001CED001CF4001CF4001CF8001CF9001D2C001D6A001D78001D78001D9B001DFF"
        \o "001FBD001FBD001FBF001FC1001FCD001FCF001FDD001FDF001FED001FEF001FFD001FFE"
        \o "00200B00200F00201800201900202400202400202700202700202A00202E002060002064"
        \o "00206600206F00207100207100207F00207F00209000209C0020D00020F0002C7C002C7D"
        \o "002CEF002CF1002D6F002D6F002D7F002D7F002DE0002DFF002E2F002E2F003005003005"
        \o "00302A00302D00303100303500303B00303B00309900309E0030FC0030FE00A01500A015"
        \o "00A4F800A4FD00A60C00A60C00A66F00A67200A67400A67D00A67F00A67F00A69C00A69F"
        \o "00A6F000A6F100A70000A72100A77000A77000A78800A78A00A7F200A7F400A7F800A7F9"
        \o "00A80200A80200A80600A80600A80B00A80B00A82500A82600A82C00A82C00A8C400A8C5"
        \o "00A8E000A8F100A8FF00A8FF00A92600A92D00A94700A95100A98000A98200A9B300A9B3"
        \o "00A9B600A9B900A9BC00A9BD00A9CF00A9CF00A9E500A9E600AA2900AA2E00AA3100AA32"
        \o "00AA3500AA3600AA4300AA4300AA4C00AA4C00AA7000AA7000AA7C00AA7C00AAB000AAB0"
        \o "00AAB200AAB400AAB700AAB800AABE00AABF00AAC100AAC100AADD00AADD00AAEC00AAED"
        \o "00AAF300AAF400AAF600AAF600AB5B00AB5F00AB6900AB6B00ABE500ABE500ABE800ABE8"
        \o "00ABED00ABED00FB1E00FB1E00FBB200FBC200FE0000FE0F00FE1300FE1300FE2000FE2F"
        \o "00FE5200FE5200FE5500FE5500FEFF00FEFF00FF0700FF0700FF0E00FF0E00FF1A00FF1A"
        \o "00FF3E00FF3E00FF4000FF4000FF7000FF7000FF9E00FF9F00FFE300FFE300FFF900FFFB"
        \o "0101FD0101FD0102E00102E001037601037A0107800107850107870107B00107B20107BA"
        \o "010A01010A03010A05010A06010A0C010A0F010A38010A3A010A3F010A3F010AE5010AE6"
        \o "010D24010D27010EAB010EAC010F46010F50010F82010F85011001011001011038011046"
        \o "01107001107001107301107401107F0110810110B30110B60110B90110BA0110BD0110BD"
        \o "0110C20110C20110CD0110CD01110001110201112701112B01112D011134011173011173"
        \o "0111800111810111B60111BE0111C90111CC0111CF0111CF01122F011231011234011234"
        \o "01123601123701123E01123E0112DF0112DF0112E30112EA01130001130101133B01133C"
        \o "01134001134001136601136C01137001137401143801143F011442011444011446011446"
        \o "01145E01145E0114B30114B80114BA0114BA0114BF0114C00114C20114C30115B20115B5"
        \o "0115BC0115BD0115BF0115C00115DC0115DD01163301163A01163D01163D01163F011640"
        \o "0116AB0116AB0116AD0116AD0116B00116B50116B70116B701171D01171F011722011725"
        \o "01172701172B01182F01183701183901183A01193B01193C01193E01193E011943011943"
        \o "0119D40119D70119DA0119DB0119E00119E0011A01011A0A011A33011A38011A3B011A3E"
        \o "011A47011A47011A51011A56011A59011A5B011A8A011A96011A98011A99011C30011C36"
        \o "011C38011C3D011C3F011C3F011C92011CA7011CAA011CB0011CB2011CB3011CB5011CB6"
        \o "011D31011D36011D3A011D3A011D3C011D3D011D3F011D45011D47011D47011D90011D91"
        \o "011D95011D95011D97011D97011EF3011EF4013430013438016AF0016AF4016B30016B36"
        \o "016B40016B43016F4F016F4F016F8F016F9F016FE0016FE1016FE3016FE401AFF001AFF3"
        \o "01AFF501AFFB01AFFD01AFFE01BC9D01BC9E01BCA001BCA301CF0001CF2D01CF3001CF46"
        \o "01D16701D16901D17301D18201D18501D18B01D1AA01D1AD01D24201D24401DA0001DA36"
        \o "01DA3B01DA6C01DA7501DA7501DA8401DA8401DA9B01DA9F01DAA101DAAF01E00001E006"
        \o "01E00801E01801E01B01E02101E02301E02401E02601E02A01E13001E13D01E2AE01E2AE"
        \o "01E2EC01E2EF01E8D001E8D601E94401E94B01F3FB01F3FF0E00010E00010E00200E007F"
        \o "0E01000E01EF"

CaseIgnorable == Table(CaseIgnorableText, 2)

\* The characters str.isprintable() does not hold of, as rows <<first, last>>.
NonPrintableText ==
    "00000000001F00007F0000A00000AD0000AD00037800037900038000038300038B00038B"
        \o "00038D00038D0003A20003A200053000053000055700055800058B00058C000590000590"
        \o "0005C80005CF0005EB0005EE0005F500060500061C00061C0006DD0006DD00070E00070F"
        \o "00074B00074C0007B20007BF0007FB0007FC00082E00082F00083F00083F00085C00085D"
        \o "00085F00085F00086B00086F00088F0008970008E20008E200098400098400098D00098E"
        \o "0009910009920009A90009A90009B10009B10009B30009B50009BA0009BB0009C50009C6"
        \o "0009C90009CA0009CF0009D60009D80009DB0009DE0009DE0009E40009E50009FF000A00"
        \o "000A04000A04000A0B000A0E000A11000A12000A29000A29000A31000A31000A34000A34"
        \o "000A37000A37000A3A000A3B000A3D000A3D000A43000A46000A49000A4A000A4E000A50"
        \o "000A52000A58000A5D000A5D000A5F000A65000A77000A80000A84000A84000A8E000A8E"
        \o "000A92000A92000AA9000AA9000AB1000AB1000AB4000AB4000ABA000ABB000AC6000AC6"
        \o "000ACA000ACA000ACE000ACF000AD1000ADF000AE4000AE5000AF2000AF8000B00000B00"
        \o "000B04000B04000B0D000B0E000B11000B12000B29000B29000B31000B31000B34000B34"
        \o "000B3A000B3B000B45000B46000B49000B4A000B4E000B54000B58000B5B000B5E000B5E"
        \o "000B64000B65000B78000B81000B84000B84000B8B000B8D000B91000B91000B96000B98"
        \o "000B9B000B9B000B9D000B9D000BA0000BA2000BA5000BA7000BAB000BAD000BBA000BBD"
        \o "000BC3000BC5000BC9000BC9000BCE000BCF000BD1000BD6000BD8000BE5000BFB000BFF"
        \o "000C0D000C0D000C11000C11000C29000C29000C3A000C3B000C45000C45000C49000C49"
        \o "000C4E000C54000C57000C57000C5B000C5C000C5E000C5F000C64000C65000C70000C76"
        \o "000C8D000C8D000C91000C91000CA9000CA9000CB4000CB4000CBA000CBB000CC5000CC5"
        \o "000CC9000CC9000CCE000CD4000CD7000CDC000CDF000CDF000CE4000CE5000CF0000CF0"
        \o "000CF3000CFF000D0D000D0D000D11000D11000D45000D45000D49000D49000D50000D53"
        \o "000D64000D65000D80000D80000D84000D84000D97000D99000DB2000DB2000DBC000DBC"
        \o "000DBE000DBF000DC7000DC9000DCB000DCE000DD5000DD5000DD7000DD7000DE0000DE5"
        \o "000DF0000DF1000DF5000E00000E3B000E3E000E5C000E80000E83000E83000E85000E85"
        \o "000E8B000E8B000EA4000EA4000EA6000EA6000EBE000EBF000EC5000EC5000EC7000EC7"
        \o "000ECE000ECF000EDA000EDB000EE0000EFF000F48000F48000F6D000F70000F98000F98"
        \o "000FBD000FBD000FCD000FCD000FDB000FFF0010C60010C60010C80010CC0010CE0010CF"
        \o "00124900124900124E00124F00125700125700125900125900125E00125F001289001289"
        \o "00128E00128F0012B10012B10012B60012B70012BF0012BF0012C10012C10012C60012C7"
        \o "0012D70012D700131100131100131600131700135B00135C00137D00137F00139A00139F"
        \o "0013F60013F70013FE0013FF00168000168000169D00169F0016F90016FF00171600171E"
        \o "00173700173F00175400175F00176D00176D00177100177100177400177F0017DE0017DF"
        \o "0017EA0017EF0017FA0017FF00180E00180E00181A00181F00187900187F0018AB0018AF"
        \o "0018F60018FF00191F00191F00192C00192F00193C00193F00194100194300196E00196F"
        \o "00197500197F0019AC0019AF0019CA0019CF0019DB0019DD001A1C001A1D001A5F001A5F"
        \o "001A7D001A7E001A8A001A8F001A9A001A9F001AAE001AAF001ACF001AFF001B4D001B4F"
        \o "001B7F001B7F001BF4001BFB001C38001C3A001C4A001C4C001C89001C8F001CBB001CBC"
        \o "001CC8001CCF001CFB001CFF001F16001F17001F1E001F1F001F46001F47001F4E001F4F"
        \o "001F58001F58001F5A001F5A001F5C001F5C001F5E001F5E001F7E001F7F001FB5001FB5"
        \o "001FC5001FC5001FD4001FD5001FDC001FDC001FF0001FF1001FF5001FF5001FFF00200F"
        \o "00202800202F00205F00206F00207200207300208F00208F00209D00209F0020C10020CF"
        \o "0020F10020FF00218C00218F00242700243F00244B00245F002B74002B75002B96002B96"
        \o "002CF4002CF8002D26002D26002D28002D2C002D2E002D2F002D68002D6E002D71002D7E"
        \o "002D97002D9F002DA7002DA7002DAF002DAF002DB7002DB7002DBF002DBF002DC7002DC7"
        \o "002DCF002DCF002DD7002DD7002DDF002DDF002E5E002E7F002E9A002E9A002EF4002EFF"
        \o "002FD6002FEF002FFC003000003040003040003097003098003100003104003130003130"
        \o "00318F00318F0031E40031EF00321F00321F00A48D00A48F00A4C700A4CF00A62C00A63F"
        \o "00A6F800A6FF00A7CB00A7CF00A7D200A7D200A7D400A7D400A7DA00A7F100A82D00A82F"
        \o "00A83A00A83F00A87800A87F00A8C600A8CD00A8DA00A8DF00A95400A95E00A97D00A97F"
        \o "00A9CE00A9CE00A9DA00A9DD00A9FF00A9FF00AA3700AA3F00AA4E00AA4F00AA5A00AA5B"
        \o "00AAC300AADA00AAF700AB0000AB0700AB0800AB0F00AB1000AB1700AB1F00AB2700AB27"
        \o "00AB2F00AB2F00AB6C00AB6F00ABEE00ABEF00ABFA00ABFF00D7A400D7AF00D7C700D7CA"
        \o "00D7FC00F8FF00FA6E00FA6F00FADA00FAFF00FB0700FB1200FB1800FB1C00FB3700FB37"
        \o "00FB3D00FB3D00FB3F00FB3F00FB4200FB4200FB4500FB4500FBC300FBD200FD9000FD91"
        \o "00FDC800FDCE00FDD000FDEF00FE1A00FE1F00FE5300FE5300FE6700FE6700FE6C00FE6F"
        \o "00FE7500FE7500FEFD00FF0000FFBF00FFC100FFC800FFC900FFD000FFD100FFD800FFD9"
        \o "00FFDD00FFDF00FFE700FFE700FFEF00FFFB00FFFE00FFFF01000C01000C010027010027"
        \o "01003B01003B01003E01003E01004E01004F01005E01007F0100FB0100FF010103010106"
        \o "01013401013601018F01018F01019D01019F0101A10101CF0101FE01027F01029D01029F"
        \o "0102D10102DF0102FC0102FF01032401032C01034B01034F01037B01037F01039E01039E"
        \o "0103C40103C70103D60103FF01049E01049F0104AA0104AF0104D40104D70104FC0104FF"
        \o "01052801052F01056401056E01057B01057B01058B01058B010593010593010596010596"
        \o "0105A20105A20105B20105B20105BA0105BA0105BD0105FF01073701073F01075601075F"
        \o "01076801077F0107860107860107B10107B10107BB0107FF010806010807010809010809"
        \o "01083601083601083901083B01083D01083E01085601085601089F0108A60108B00108DF"
        \o "0108F30108F30108F60108FA01091C01091E01093A01093E01094001097F0109B80109BB"
        \o "0109D00109D1010A04010A04010A07010A0B010A14010A14010A18010A18010A36010A37"
        \o "010A3B010A3E010A49010A4F010A59010A5F010AA0010ABF010AE7010AEA010AF7010AFF"
        \o "010B36010B38010B56010B57010B73010B77010B92010B98010B9D010BA8010BB0010BFF"
        \o "010C49010C7F010CB3010CBF010CF3010CF9010D28010D2F010D3A010E5F010E7F010E7F"
        \o "010EAA010EAA010EAE010EAF010EB2010EFF010F28010F2F010F5A010F6F010F8A010FAF"
        \o "010FCC010FDF010FF7010FFF01104E01105101107601107E0110BD0110BD0110C30110CF"
        \o "0110E90110EF0110FA0110FF01113501113501114801114F01117701117F0111E00111E0"
        \o "0111F50111FF01121201121201123F01127F01128701128701128901128901128E01128E"
        \o "01129E01129E0112AA0112AF0112EB0112EF0112FA0112FF01130401130401130D01130E"
        \o "01131101131201132901132901133101133101133401133401133A01133A011345011346"
        \o "01134901134A01134E01134F01135101135601135801135C01136401136501136D01136F"
        \o "0113750113FF01145C01145C01146201147F0114C80114CF0114DA01157F0115B60115B7"
        \o "0115DE0115FF01164501164F01165A01165F01166D01167F0116BA0116BF0116CA0116FF"
        \o "01171B01171C01172C01172F0117470117FF01183C01189F0118F30118FE011907011908"
        \o "01190A01190B01191401191401191701191701193601193601193901193A01194701194F"
        \o "01195A01199F0119A80119A90119D80119D90119E50119FF011A48011A4F011AA3011AAF"
        \o "011AF9011BFF011C09011C09011C37011C37011C46011C4F011C6D011C6F011C90011C91"
        \o "011CA8011CA8011CB7011CFF011D07011D07011D0A011D0A011D37011D39011D3B011D3B"
        \o "011D3E011D3E011D48011D4F011D5A011D5F011D66011D66011D69011D69011D8F011D8F"
        \o "011D92011D92011D99011D9F011DAA011EDF011EF9011FAF011FB1011FBF011FF2011FFE"
        \o "01239A0123FF01246F01246F01247501247F012544012F8F012FF3012FFF01342F0143FF"
        \o "0146470167FF016A39016A3F016A5F016A5F016A6A016A6D016ABF016ABF016ACA016ACF"
        \o "016AEE016AEF016AF6016AFF016B46016B4F016B5A016B5A016B62016B62016B78016B7C"
        \o "016B90016E3F016E9B016EFF016F4B016F4E016F88016F8E016FA0016FDF016FE5016FEF"
        \o "016FF2016FFF0187F80187FF018CD6018CFF018D0901AFEF01AFF401AFF401AFFC01AFFC"
        \o "01AFFF01AFFF01B12301B14F01B15301B16301B16801B16F01B2FC01BBFF01BC6B01BC6F"
        \o "01BC7D01BC7F01BC8901BC8F01BC9A01BC9B01BCA001CEFF01CF2E01CF2F01CF4701CF4F"
        \o "01CFC401CFFF01D0F601D0FF01D12701D12801D17301D17A01D1EB01D1FF01D24601D2DF"
        \o "01D2F401D2FF01D35701D35F01D37901D3FF01D45501D45501D49D01D49D01D4A001D4A1"
        \o "01D4A301D4A401D4A701D4A801D4AD01D4AD01D4BA01D4BA01D4BC01D4BC01D4C401D4C4"
        \o "01D50601D50601D50B01D50C01D51501D51501D51D01D51D01D53A01D53A01D53F01D53F"
        \o "01D54501D54501D54701D54901D55101D55101D6A601D6A701D7CC01D7CD01DA8C01DA9A"
        \o "01DAA001DAA001DAB001DEFF01DF1F01DFFF01E00701E00701E01901E01A01E02201E022"
        \o "01E02501E02501E02B01E0FF01E12D01E12F01E13E01E13F01E14A01E14D01E15001E28F"
        \o "01E2AF01E2BF01E2FA01E2FE01E30001E7DF01E7E701E7E701E7EC01E7EC01E7EF01E7EF"
        \o "01E7FF01E7FF01E8C501E8C601E8D701E8FF01E94C01E94F01E95A01E95D01E96001EC70"
        \o "01ECB501ED0001ED3E01EDFF01EE0401EE0401EE2001EE2001EE2301EE2301EE2501EE26"
        \o "01EE2801EE2801EE3301EE3301EE3801EE3801EE3A01EE3A01EE3C01EE4101EE4301EE46"
        \o "01EE4801EE4801EE4A01EE4A01EE4C01EE4C01EE5001EE5001EE5301EE5301EE5501EE56"
        \o "01EE5801EE5801EE5A01EE5A01EE5C01EE5C01EE5E01EE5E01EE6001EE6001EE6301EE63"
        \o "01EE6501EE6601EE6B01EE6B01EE7301EE7301EE7801EE7801EE7D01EE7D01EE7F01EE7F"
        \o "01EE8A01EE8A01EE9C01EEA001EEA401EEA401EEAA01EEAA01EEBC01EEEF01EEF201EFFF"
        \o "01F02C01F02F01F09401F09F01F0AF01F0B001F0C001F0C001F0D001F0D001F0F601F0FF"
        \o "01F1AE01F1E501F20301F20F01F23C01F23F01F24901F24F01F25201F25F01F26601F2FF"
        \o "01F6D801F6DC01F6ED01F6EF01F6FD01F6FF01F77401F77F01F7D901F7DF01F7EC01F7EF"
        \o "01F7F101F7FF01F80C01F80F01F84801F84F01F85A01F85F01F88801F88F01F8AE01F8AF"
        \o "01F8B201F8FF01FA5401FA5F01FA6E01FA6F01FA7501FA7701FA7D01FA7F01FA8701FA8F"
        \o "01FAAD01FAAF01FABB01FABF01FAC601FACF01FADA01FADF01FAE801FAEF01FAF701FAFF"
        \o "01FB9301FB9301FBCB01FBEF01FBFA01FFFF02A6E002A6FF02B73902B73F02B81E02B81F"
        \o "02CEA202CEAF02EBE102F7FF02FA1E02FFFF03134B0E00FF0E01F010FFFF"

NonPrintable == Table(NonPrintableText, 2)

\* The rows <<first, last, step, to>> of a table that hold n: one or none.
RowsHolding(n, table) ==
    {r \in {table[k] : k \in 1..Len(table)} :
        r[1] <= n /\ n <= r[2] /\ (n - r[1]) % r[3] = 0}

\* The characters below 128 that str.lower() leaves as they are: all but
\* the capitals A to Z (the first row of LowerRanges).
AsciiUnchanged ==
    {"\t", "\n", "\f", "\r", "U+0060"}
        \cup {SubSeq(AsciiLow, i, i) : i \in (1..Len(AsciiLow)) \ (34..59)}
        \cup {SubSeq(AsciiHigh, i, i) : i \in 1..Len(AsciiHigh)}

\* str.lower() of the character with number n that is not the capital I
\* with a dot, given the rows of LowerRanges that hold n.
LowerOne(n, rows) ==
    IF rows = {} THEN chr(n)
    ELSE LET r == CHOOSE r \in rows : TRUE IN chr(r[4] + (n - r[1]))

\* str.lower() of one character: a string, of two characters for the
\* capital I with a dot (i and the combining dot U+0307).
LowerChar(c) ==
    IF c \in AsciiUnchanged THEN <<c>>
    ELSE IF c = "U+0130" THEN <<"i", "U+0307">>
    ELSE <<LowerOne(ord(c), RowsHolding(ord(c), LowerRanges))>>

IsCased(c) == InRanges(ord(c), Cased)

IsCaseIgnorable(c) == InRanges(ord(c), CaseIgnorable)

\* The capital sigma at place i becomes the final small sigma when a cased
\* character stands before it and none after it, case-ignorable characters
\* not counted.
FinalSigma(s, i) ==
    LET counted == {j \in 1..Len(s) : ~IsCaseIgnorable(s[j])}
        cased == {j \in counted : IsCased(s[j])}
        before == {j \in counted : j < i}
        after == {j \in counted : j > i}
    IN  /\ \E j \in before \cap cased : \A k \in before : k <= j
        /\ ~(\E j \in after \cap cased : \A k \in after : j <= k)

RECURSIVE LowerFrom(_, _)
LowerFrom(s, i) ==
    IF i > Len(s) THEN <<>>
    ELSE (IF s[i] = "U+03A3"
          THEN (IF FinalSigma(s, i) THEN <<"U+03C2">> ELSE <<"U+03C3">>)
          ELSE LowerChar(s[i])) \o LowerFrom(s, i + 1)

\* str.lower()
lower(s) == LowerFrom(s, 1)

\* The characters str.strip() removes (those str.isspace() holds of).
Whitespace ==
    {"\t", "\n", "U+000B", "\f", "\r", "U+001C", "U+001D", "U+001E",
     "U+001F", " ", "U+0085", "U+00A0", "U+1680", "U+2000", "U+2001",
     "U+2002", "U+2003", "U+2004", "U+2005", "U+2006", "U+2007", "U+2008",
     "U+2009", "U+200A", "U+2028", "U+2029", "U+202F", "U+205F", "U+3000"}

IsSpace(c) == c \in Whitespace

RECURSIVE lstrip(_)
lstrip(s) == IF s # <<>> /\ IsSpace(Head(s)) THEN lstrip(Tail(s)) ELSE s

RECURSIVE rstrip(_)
rstrip(s) ==
    IF s # <<>> /\ IsSpace(s[Len(s)]) THEN rstrip(SubSeq(s, 1, Len(s) - 1)) ELSE s

\* str.strip()
strip(s) == rstrip(lstrip(s))

\* Python's `k in s` on strings.
Contains(s, k) ==
    \E i \in 1..(Len(s) - Len(k) + 1) : SubSeq(s, i, i + Len(k) - 1) = k

\* any(k in s for k in ks)
AnyIn(ks, s) == \E k \in ks : Contains(s, k)

\* xs[:n]
Take(xs, n) == SubSeq(xs, 1, IF Len(xs) < n THEN Len(xs) ELSE n)

Max(a, b) == IF a >= b THEN a ELSE b

\* The quote repr() puts around a string: the double one when the string
\* holds a single quote and no double one.
QuoteOf(s) ==
    IF (\E i \in 1..Len(s) : s[i] = "'") /\ ~(\E i \in 1..Len(s) : s[i] = "\"")
    THEN "\"" ELSE "'"

\* \xhh, \uhhhh or \Uhhhhhhhh, in small hexadecimal digits.
Escaped(n) ==
    LET digits(w) == lower(Chars(HexOf(n, w)))
    IN  IF n <= \hFF THEN <<"\\", "x">> \o digits(2)
        ELSE IF n <= \hFFFF THEN <<"\\", "u">> \o digits(4)
        ELSE <<"\\", "U">> \o digits(8)

\* What repr() writes for one character of a string quoted with q.
ReprChar(c, q) ==
    IF c = q \/ c = "\\" THEN <<"\\", c>>
    ELSE IF c = "\t" THEN <<"\\", "t">>
    ELSE IF c = "\n" THEN <<"\\", "n">>
    ELSE IF c = "\r" THEN <<"\\", "r">>
    ELSE IF InRanges(ord(c), NonPrintable) THEN Escaped(ord(c))
    ELSE <<c>>

RECURSIVE ReprFrom(_, _, _)
ReprFrom(s, i, q) ==
    IF i > Len(s) THEN <<>> ELSE ReprChar(s[i], q) \o ReprFrom(s, i + 1, q)

\* repr() of a string.
repr(s) == <<QuoteOf(s)>> \o ReprFrom(s, 1, QuoteOf(s)) \o <<QuoteOf(s)>>

-----------------------------------------------------------------------------
(* The keyword tables of classify and compute_score.                       *)

K_findomme == <<"f", "i", "n", "d", "o", "m", "m", "e">>
K_platform == <<"p", "l", "a", "t", "f", "o", "r", "m">>
K_domme == <<"d", "o", "m", "m", "e">>
K_loyalfans == <<"l", "o", "y", "a", "l", "f", "a", "n", "s">>
K_fansly == <<"f", "a", "n", "s", "l", "y">>
K_onlyfans == <<"o", "n", "l", "y", "f", "a", "n", "s">>
K_paypig == <<"p", "a", "y", "p", "i", "g">>
K_pay_pig == <<"p", "a", "y", " ", "p", "i", "g">>
K_submissive == <<"s", "u", "b", "m", "i", "s", "s", "i", "v", "e">>
K_slave == <<"s", "l", "a", "v", "e">>
K_media == <<"m", "e", "d", "i", "a">>
K_manga == <<"m", "a", "n", "g", "a">>
K_movie == <<"m", "o", "v", "i", "e">>
K_movies == <<"m", "o", "v", "i", "e", "s">>
K_tv == <<"t", "v">>
K_television == <<"t", "e", "l", "e", "v", "i", "s", "i", "o", "n">>
K_comic == <<"c", "o", "m", "i", "c">>
K_comics == <<"c", "o", "m", "i", "c", "s">>
K_doujin == <<"d", "o", "u", "j", "i", "n">>
K_beginner == <<"b", "e", "g", "i", "n", "n", "e", "r">>
K_starting == <<"s", "t", "a", "r", "t", "i", "n", "g">>
K_start == <<"s", "t", "a", "r", "t">>
K_how_do_i == <<"h", "o", "w", " ", "d", "o", " ", "i">>
K_how_to == <<"h", "o", "w", " ", "t", "o">>
K_advice == <<"a", "d", "v", "i", "c", "e">>
K_help == <<"h", "e", "l", "p">>
K_teamviewer == <<"t", "e", "a", "m", "v", "i", "e", "w", "e", "r">>
K_boundar == <<"b", "o", "u", "n", "d", "a", "r">>
K_addict == <<"a", "d", "d", "i", "c", "t">>
K_safe == <<"s", "a", "f", "e">>
K_megathread == <<"m", "e", "g", "a", "t", "h", "r", "e", "a", "d">>
K_weekly_thread == <<"w", "e", "e", "k", "l", "y", " ", "t", "h", "r", "e", "a", "d">>
K_daily_thread == <<"d", "a", "i", "l", "y", " ", "t", "h", "r", "e", "a", "d">>
K_monthly_thread == <<"m", "o", "n", "t", "h", "l", "y", " ", "t", "h", "r", "e", "a", "d">>

\* The keywords of suggested_opening that the tables above do not hold.
\* "U+2019" stands for the one character of that code point (the
\* typographic apostrophe of line 159).
K_attract == <<"a", "t", "t", "r", "a", "c", "t">>
K_get_paypigs == <<"g", "e", "t", " ", "p", "a", "y", "p", "i", "g", "s">>
K_marketing == <<"m", "a", "r", "k", "e", "t", "i", "n", "g">>
K_addiction == <<"a", "d", "d", "i", "c", "t", "i", "o", "n">>
K_cant_stop == <<"c", "a", "n", "U+2019", "t", " ", "s", "t", "o", "p">>

-----------------------------------------------------------------------------
(* classify: first matching rule wins.                                     *)

\* Variant of classify: the paypig rule is tried before the findomme rule.
classify_paypig_first(feed_name, title) ==
    LET f == lower(feed_name)
        t == lower(title)
    IN  IF Contains(f, K_paypig)
           \/ AnyIn({K_paypig, K_pay_pig, K_submissive, K_slave}, t)
        THEN "PAYPIG"
        ELSE IF AnyIn({K_findomme, K_platform}, f)
                \/ AnyIn({K_findomme, K_domme, K_loyalfans, K_fansly, K_onlyfans}, t)
        THEN "FINDOMME"
        ELSE IF AnyIn({K_media, K_manga}, f)
                \/ AnyIn({K_movie, K_movies, K_tv, K_television, K_manga,
                          K_comic, K_comics, K_doujin}, t)
        THEN "MEDIA"
        ELSE "GENERAL"

classify(feed_name, title) ==
    LET f == lower(feed_name)
        t == lower(title)
    IN  IF AnyIn({K_findomme, K_platform}, f)
           \/ AnyIn({K_findomme, K_domme, K_loyalfans, K_fansly, K_onlyfans}, t)
        THEN "FINDOMME"
        ELSE IF Contains(f, K_paypig)
                \/ AnyIn({K_paypig, K_pay_pig, K_submissive, K_slave}, t)
        THEN "PAYPIG"
        ELSE IF AnyIn({K_media, K_manga}, f)
                \/ AnyIn({K_movie, K_movies, K_tv, K_television, K_manga,
                          K_comic, K_comics, K_doujin}, t)
        THEN "MEDIA"
        ELSE "GENERAL"

-----------------------------------------------------------------------------
(* compute_score: additive rules, each appending its label.                *)

keywords == <<
    [term |-> K_beginner,   pts |-> 3, label |-> "beginner"],
    [term |-> K_starting,   pts |-> 2, label |-> "start"],
    [term |-> K_start,      pts |-> 2, label |-> "start"],
    [term |-> K_how_do_i,   pts |-> 3, label |-> "how-do-i"],
    [term |-> K_how_to,     pts |-> 3, label |-> "how-to"],
    [term |-> K_advice,     pts |-> 2, label |-> "advice"],
    [term |-> K_help,       pts |-> 2, label |-> "help"],
    [term |-> K_platform,   pts |-> 3, label |-> "platform"],
    [term |-> K_loyalfans,  pts |-> 3, label |-> "loyalfans"],
    [term |-> K_teamviewer, pts |-> 3, label |-> "teamviewer"],
    [term |-> K_boundar,    pts |-> 3, label |-> "boundaries"],
    [term |-> K_addict,     pts |-> 3, label |-> "addiction"],
    [term |-> K_safe,       pts |-> 2, label |-> "safe" ] >>

\* One rule: add pts and append label to the running (score, reasons).
Hit(acc, pts, label) ==
    [score |-> acc.score + pts, reasons |-> Append(acc.reasons, label)]

\* The keyword loop of lines 117-120, from keyword i on.
RECURSIVE KeywordLoop(_, _, _)
KeywordLoop(t, i, acc) ==
    IF i > Len(keywords) THEN acc
    ELSE KeywordLoop(t, i + 1,
            IF Contains(t, keywords[i].term)
            THEN Hit(acc, keywords[i].pts, keywords[i].label)
            ELSE acc)

\* Variant of the age tiers: the "recent" tier reaches up to 12 hours and
\* the tier without a label is gone.
AgeTier_recent_to_12(acc, age_h) ==
    IF age_h <= 2 THEN Hit(acc, 3, "fresh")
    ELSE IF age_h <= 12 THEN Hit(acc, 2, "recent")
    ELSE IF age_h >= 48 THEN Hit(acc, 0 - 3, "old")
    ELSE acc

\* Variant of the age tiers: nothing is taken off for an old item.
AgeTier_no_old_penalty(acc, age_h) ==
    IF age_h <= 2 THEN Hit(acc, 3, "fresh")
    ELSE IF age_h <= 6 THEN Hit(acc, 2, "recent")
    ELSE IF age_h <= 12 THEN [acc EXCEPT !.score = @ + 1]
    ELSE acc

\* The age tiers of lines 133-143.
AgeTier(acc, age_h) ==
    IF age_h <= 2 THEN Hit(acc, 3, "fresh")
    ELSE IF age_h <= 6 THEN Hit(acc, 2, "recent")
    ELSE IF age_h <= 12 THEN [acc EXCEPT !.score = @ + 1]
    ELSE IF age_h >= 48 THEN Hit(acc, 0 - 3, "old")
    ELSE acc

\* Variant of the bonuses: the question mark weighs 3, as in the older script.
ScoreBonuses_question3(feed_name, title) ==
    LET t  == lower(title)
        f  == lower(feed_name)
        a0 == [score |-> 0, reasons |-> <<>>]
        a1 == IF Contains(title, <<"?">>) THEN Hit(a0, 3, "question") ELSE a0
        a2 == KeywordLoop(t, 1, a1)
    IN  IF AnyIn({K_paypig, K_findomme, K_platform, K_teamviewer}, f)
        THEN Hit(a2, 2, "target-feed") ELSE a2

\* Lines 93-125: the question mark, the keywords and the feed relevance,
\* the running (score, reasons) before the penalties and the age tiers.
ScoreBonuses(feed_name, title) ==
    LET t  == lower(title)
        f  == lower(feed_name)
        a0 == [score |-> 0, reasons |-> <<>>]
        a1 == IF Contains(title, <<"?">>) THEN Hit(a0, 4, "question") ELSE a0
        a2 == KeywordLoop(t, 1, a1)
    IN  IF AnyIn({K_paypig, K_findomme, K_platform, K_teamviewer}, f)
        THEN Hit(a2, 2, "target-feed") ELSE a2

\* Variant of compute_score: five labels are returned, as in the older script.
compute_score_take5(feed_name, title, age_h) ==
    LET t  == lower(title)
        a3 == ScoreBonuses(feed_name, title)
        a4 == IF AnyIn({K_megathread, K_weekly_thread, K_daily_thread,
                        K_monthly_thread}, t)
              THEN Hit(a3, 0 - 4, "megathread") ELSE a3
        a5 == AgeTier(a4, age_h)
    IN  [score |-> a5.score, reasons |-> Take(a5.reasons, 5)]

compute_score(feed_name, title, age_h) ==
    LET t  == lower(title)
        a3 == ScoreBonuses(feed_name, title)
        a4 == IF AnyIn({K_megathread, K_weekly_thread, K_daily_thread,
                        K_monthly_thread}, t)
              THEN Hit(a3, 0 - 4, "megathread") ELSE a3
        a5 == AgeTier(a4, age_h)
    IN  [score |-> a5.score, reasons |-> Take(a5.reasons, 6)]

-----------------------------------------------------------------------------
(* Time, configuration and the feeds.                                      *)

\* Seconds per hour (hours_ago, timedelta(hours=...)).
HOUR == 3600
\* The clock at the start of the first run, in epoch seconds.
Now0 == 720000
\* One clock step of the model, in seconds.
TickSeconds == 1800
\* The clock advances at most this many steps.
MaxTicks == 1
\* Number of runs of the script that are followed.
MaxRuns == 2
\* At most this many failures of the environment are followed: a feed that
\* does not answer, a queue file that cannot be written, a mail that cannot
\* be sent, a state file that cannot be written.
MaxFaults == 1
\* Offset added by time.mktime when it reads feedparser's UTC struct_time
\* as local time (0 on a host whose zone is UTC).
TzShift == 0

\* list(seen)[-10000:] keeps this many identities (line 518).
SEEN_LIMIT == 10000
\* d.entries[:200]
PER_SOURCE_CAP == 200
\* os.getenv("MAX_ITEMS_PER_RUN", "120")
MAX_ITEMS_DEFAULT == 120
\* os.getenv("BACKFILL_HOURS", "168")
BACKFILL_DEFAULT == 168

\* The values of MAX_ITEMS_PER_RUN and BACKFILL_HOURS a deployment is run with.
MaxItemsChoices == {1, 2, MAX_ITEMS_DEFAULT}
BackfillChoices == {1, BACKFILL_DEFAULT}

\* No published_parsed / updated_parsed on the entry.
NoTime == 0 - 1

\* build_feeds, lines 50-69: the names of the ten feeds in their fixed
\* order (the URL is only handed to feedparser).
build_feeds == <<
    <<"F", "i", "n", "d", "o", "m", " ", "g", "e", "n", "e", "r", "a", "l">>,
    <<"P", "a", "y", "p", "i", "g">>,
    <<"B", "e", "g", "i", "n", "n", "e", "r", " ", "f", "i", "n", "d", "o", "m", "m", "e">>,
    <<"P", "l", "a", "t", "f", "o", "r", "m", "s">>,
    <<"T", "e", "a", "m", "V", "i", "e", "w", "e", "r">>,
    <<"T", "e", "l", "e", "g", "r", "a", "m">>,
    <<"F", "e", "m", "d", "o", "m", " ", "i", "n", " ", "m", "e", "d", "i", "a">>,
    <<"M", "a", "n", "g", "a", " ", "c", "o", "m", "i", "c", "s">>,
    <<"F", "i", "n", "d", "o", "m", " ", "s", "t", "o", "r", "i", "e", "s">>,
    <<"F", "i", "n", "d", "o", "m", " ", "f", "o", "r", "u", "m">> >>

\* Feed entries as feedparser hands them over.
Entry(id, link, title, published, updated) ==
    [id |-> id, link |-> link, title |-> title,
     published |-> published, updated |-> updated]

\* id a, one hour old at Now0.
eA == Entry(<<"a">>, <<"l", "1">>, <<"N", "e", "e", "d", " ", "h", "e", "l", "p", "?">>,
            Now0 - HOUR, NoTime)
\* id b, no timestamp at all.
eB == Entry(<<"b">>, <<"l", "2">>, <<"t", "v">>, NoTime, NoTime)
\* no id: the link "a" is the identity; only an updated time, in the future.
eLinkA == Entry(<<>>, <<"a">>, <<"x">>, NoTime, Now0 + TickSeconds)
\* neither id nor link.
eNoId == Entry(<<>>, <<>>, <<"x">>, Now0, NoTime)
\* id c with a link of whitespace only.
eBlank == Entry(<<"c">>, <<"\r", " ">>, <<"P", "a", "y", "p", "i", "g">>, Now0, NoTime)
\* id c, complete, no timestamp, title padded with a blank and a no-break
\* space.
eC == Entry(<<"c">>, <<"l", "3">>,
            <<" ", "S", "a", "f", "e", " ", "a", "d", "v", "i", "c", "e", "U+00A0">>,
            NoTime, NoTime)
\* id d, three hours old at Now0.
eOld == Entry(<<"d">>, <<"l", "4">>, <<"o", "l", "d", " ", "a", "d", "d", "i", "c", "t">>,
              Now0 - 3 * HOUR, NoTime)

NumFeeds == Len(build_feeds)

\* What the feeds return when they answer: the entries of the first feeds
\* are given, the feeds after them return none.
FeedsReturn(batches) ==
    [i \in 1..NumFeeds |-> IF i <= Len(batches) THEN batches[i] ELSE <<>>]

\* No feed returns an entry.
NoEntries == FeedsReturn(<<>>)

Fixtures == {
    FeedsReturn(<< <<eA, eB>>, <<eNoId, eBlank, eC>> >>),
    FeedsReturn(<< <<eLinkA, eA>>, <<eB, eC, eOld>> >>),
    FeedsReturn(<< <<>>, <<>>, <<eOld>> >>),
    FeedsReturn(<< <<eB, eLinkA, eC>>, <<eOld, eA>> >>),
    FeedsReturn(<< <<eNoId, eBlank, eC>>, <<>> >>) }

-----------------------------------------------------------------------------
(* Helpers of run().                                                       *)

\* time.mktime of a UTC struct_time.
mktime(st) == st + TzShift

parse_entry_time(entry, clock) ==
    IF entry.published # NoTime THEN mktime(entry.published)
    ELSE IF entry.updated # NoTime THEN mktime(entry.updated)
    ELSE clock

hours_ago(ts, clock) == Max(0, (clock - ts) \div HOUR)

\* hours_ago of the script under .github/workflows (lines 31-32), which
\* fills age_hours at its line 162.
hours_ago_workflows(ts, clock) == (clock - ts) \div HOUR

\* getattr(entry, "id", None) or getattr(entry, "link", None)
Identity(entry) == IF entry.id # <<>> THEN entry.id ELSE entry.link

\* The persisted state file. Its seen_ids are written in two parts: the
\* identities a feed of the model can return, one by one, and the number of
\* the others, which no entry carries and which differ in nothing the
\* program looks at.
AbsentFile ==
    [kind |-> "absent", seen_ids |-> {}, others |-> 0, last_run_utc_ts |-> 0]
CorruptFile ==
    [kind |-> "corrupt", seen_ids |-> {}, others |-> 0, last_run_utc_ts |-> 0]
JsonFile(ids, others, ts) ==
    [kind |-> "json", seen_ids |-> ids, others |-> others, last_run_utc_ts |-> ts]

\* state.json before the first run that is followed: not there, unreadable,
\* or as an earlier run committed it one hour before, with SEEN_LIMIT
\* identities.
InitialFiles ==
    {AbsentFile, CorruptFile,
     JsonFile({<<"a">>, <<"b">>}, SEEN_LIMIT - 2, Now0 - HOUR)}

\* len(seen)
SeenSize(s, others) == Cardinality(s) + others

\* The ways of taking n members out of the set: some subset of the
\* identities, and the rest from the others.
DropFromSeen(s, others, n) ==
    {[ids |-> s \ d, others |-> others - (n - Cardinality(d))] :
        d \in {d \in SUBSET s : /\ Cardinality(d) <= n
                                /\ n - Cardinality(d) <= others}}

\* list(seen)[-10000:]: a set is listed in an order the program does not
\* control, so any SEEN_LIMIT of its members can be the ones kept.
LastOfSeen(s, others) ==
    IF SeenSize(s, others) <= SEEN_LIMIT THEN {[ids |-> s, others |-> others]}
    ELSE DropFromSeen(s, others, SeenSize(s, others) - SEEN_LIMIT)

\* Variant of load_state: an unreadable file is swallowed and read as {}.
load_state_lenient(file) ==
    IF file.kind = "json"
    THEN [raised |-> FALSE, seen_ids |-> file.seen_ids, others |-> file.others,
          last_run_utc_ts |-> file.last_run_utc_ts]
    ELSE [raised |-> FALSE, seen_ids |-> {}, others |-> 0, last_run_utc_ts |-> 0]

\* Variant of load_state: no exists() test, so a missing file raises too.
load_state_strict(file) ==
    IF file.kind = "json"
    THEN [raised |-> FALSE, seen_ids |-> file.seen_ids, others |-> file.others,
          last_run_utc_ts |-> file.last_run_utc_ts]
    ELSE [raised |-> TRUE, seen_ids |-> {}, others |-> 0, last_run_utc_ts |-> 0]

\* load_state, and what run() reads from its result: the file is read when
\* it exists; json.loads raises when it does not hold JSON.
load_state(file) ==
    IF file.kind = "absent"
    THEN [raised |-> FALSE, seen_ids |-> {}, others |-> 0, last_run_utc_ts |-> 0]
    ELSE IF file.kind = "corrupt"
    THEN [raised |-> TRUE, seen_ids |-> {}, others |-> 0, last_run_utc_ts |-> 0]
    ELSE [raised |-> FALSE, seen_ids |-> file.seen_ids, others |-> file.others,
          last_run_utc_ts |-> file.last_run_utc_ts]

\* Variant of the admission: the identity is not registered.
SeenAfterAdmit_forgets(s, eid) == s

\* Variant of the admission: only the first identity of a run that started
\* with nothing seen is registered.
SeenAfterAdmit_first_only(s, eid) == IF s = {} THEN {eid} ELSE s

\* seen.add(eid)
SeenAfterAdmit(s, eid) == s \cup {eid}

\* Variant of the commit: the instant is stored under a key run() never
\* reads, so the next run reads 0.
CommitStamp_lost(clock) == 0

\* state["last_run_utc_ts"] = time.time()
CommitStamp(clock) == clock

\* Variant of the lower bound: the horizon is subtracted from the maximum.
WindowLowerBound_misplaced(last, clock, hours) == Max(last, clock) - hours * HOUR

\* Variant of the lower bound: the last-run instant is not looked at.
WindowLowerBound_backfill_only(last, clock, hours) == clock - hours * HOUR

\* The time-window lower bound of line 202.
WindowLowerBound(last, clock, hours) == Max(last, clock - hours * HOUR)

\* suggested_opening, lines 148-168: the sentence offered for a reply.
suggested_opening(kind, title) ==
    LET t == lower(title)
    IN  IF kind = "FINDOMME" THEN
            IF AnyIn({K_platform, K_loyalfans, K_onlyfans, K_fansly}, t)
            THEN "Platform choice matters less than positioning, boundaries, and consistency, especially at the beginning."
            ELSE IF AnyIn({K_attract, K_get_paypigs, K_marketing}, t)
            THEN "Most beginners focus on promotion first, but what really converts is clarity, authority, and a repeatable structure."
            ELSE "A lot of beginner dommes underestimate how much paypig psychology drives everything, not just content or pricing."
        ELSE IF kind = "PAYPIG" THEN
            IF AnyIn({K_addict, K_addiction, K_cant_stop}, t)
            THEN "If this feels compulsive rather than consensual fun, the first step is boundaries and a realistic plan, not shame."
            ELSE IF AnyIn({K_safe, K_boundar}, t)
            THEN "The safest way to approach this is to define boundaries first, then choose dynamics that respect them."
            ELSE "Most beginners get stuck because they only see the fantasy part, but the real challenge is balance and structure."
        ELSE IF kind = "MEDIA"
        THEN "Mainstream references can be fun, but they usually simplify the dynamics, the real thing is more psychological than it looks."
        ELSE "If you are new to this, focus on understanding the dynamics first, the rest becomes much clearer after that."

\* The item dict of lines 230-242.
MakeItem(entry, feed_name, clock) ==
    LET created_ts == parse_entry_time(entry, clock)
        title == strip(entry.title)
        age_h == hours_ago(created_ts, clock)
        sc == compute_score(feed_name, title, age_h)
        kind == classify(feed_name, title)
    IN  [id |-> Identity(entry), created_utc |-> created_ts, age_hours |-> age_h,
         feed |-> feed_name, kind |-> kind, title |-> title,
         url |-> strip(entry.link), score |-> sc.score, signals |-> sc.reasons,
         opening |-> suggested_opening(kind, title)]

\* Variant of the verdict: no test against the seen set.
Verdict_nodedup(entry, seenNow, lowerBound, clock) ==
    IF Identity(entry) = <<>> THEN "no-identity"
    ELSE IF parse_entry_time(entry, clock) < lowerBound THEN "stale"
    ELSE IF strip(entry.title) = <<>> \/ strip(entry.link) = <<>> THEN "incomplete"
    ELSE "admitted"

\* Variant of the verdict: no test against the time window.
Verdict_nowindow(entry, seenNow, lowerBound, clock) ==
    IF Identity(entry) = <<>> THEN "no-identity"
    ELSE IF Identity(entry) \in seenNow THEN "duplicate"
    ELSE IF strip(entry.title) = <<>> \/ strip(entry.link) = <<>> THEN "incomplete"
    ELSE "admitted"

\* Variant of the verdict: title and link are tested as they come, untrimmed.
Verdict_untrimmed(entry, seenNow, lowerBound, clock) ==
    IF Identity(entry) = <<>> THEN "no-identity"
    ELSE IF Identity(entry) \in seenNow THEN "duplicate"
    ELSE IF parse_entry_time(entry, clock) < lowerBound THEN "stale"
    ELSE IF entry.title = <<>> \/ entry.link = <<>> THEN "incomplete"
    ELSE "admitted"

\* The verdict of lines 212-223 on one entry.
Verdict(entry, seenNow, lowerBound, clock) ==
    IF Identity(entry) = <<>> THEN "no-identity"
    ELSE IF Identity(entry) \in seenNow THEN "duplicate"
    ELSE IF parse_entry_time(entry, clock) < lowerBound THEN "stale"
    ELSE IF strip(entry.title) = <<>> \/ strip(entry.link) = <<>> THEN "incomplete"
    ELSE "admitted"

\* Variant of the inner test: the source in progress is never cut short.
CapReachedInSource_absent(count, cap) == FALSE

\* Line 246: the test that ends the source in progress, made after each
\* admitted item.
CapReachedInSource(count, cap) == count >= cap

\* Variant of the outer test: the remaining sources are still fetched.
CapReachedAfterSource_absent(count, cap) == FALSE

\* Line 248: the test that ends the loop over the sources.
CapReachedAfterSource(count, cap) == count >= cap

\* x sorts strictly before y under key (score, -age_hours), reverse=True.
SortsBefore(x, y) ==
    \/ x.score > y.score
    \/ x.score = y.score /\ x.age_hours < y.age_hours

\* Variant of the insertion: x goes in front of the elements it ties with.
RECURSIVE InsertStable_before(_, _)
InsertStable_before(s, x) ==
    IF s = <<>> THEN <<x>>
    ELSE IF ~SortsBefore(Head(s), x) THEN <<x>> \o s
    ELSE <<Head(s)>> \o InsertStable_before(Tail(s), x)

\* Insert x behind every element it does not sort strictly before (stable).
RECURSIVE InsertStable(_, _)
InsertStable(s, x) ==
    IF s = <<>> THEN <<x>>
    ELSE IF SortsBefore(x, Head(s)) THEN <<x>> \o s
    ELSE <<Head(s)>> \o InsertStable(Tail(s), x)

\* collected.sort(key=..., reverse=True)
RECURSIVE SortCollected(_)
SortCollected(xs) ==
    IF xs = <<>> THEN <<>>
    ELSE InsertStable(SortCollected(SubSeq(xs, 1, Len(xs) - 1)), xs[Len(xs)])

\* Variant of the high-priority test: the age is not looked at.
IsHigh_any_age(x) == x.score >= 10

IsHigh(x) == x.score >= 10 /\ x.age_hours <= 12
IsPaypig(x) == x.kind = "PAYPIG"
IsFindomme(x) == x.kind = "FINDOMME"
IsOther(x) == x.kind \notin {"PAYPIG", "FINDOMME"}

\* Variant of the split: the "other" list is not cut to ten.
Sections_other_uncapped(ranked) ==
    [high_priority |-> Take(SelectSeq(ranked, IsHigh), 10),
     paypig        |-> Take(SelectSeq(ranked, IsPaypig), 10),
     findomme      |-> Take(SelectSeq(ranked, IsFindomme), 10),
     other         |-> SelectSeq(ranked, IsOther)]

\* The split of lines 258-261.
Sections(ranked) ==
    [high_priority |-> Take(SelectSeq(ranked, IsHigh), 10),
     paypig        |-> Take(SelectSeq(ranked, IsPaypig), 10),
     findomme      |-> Take(SelectSeq(ranked, IsFindomme), 10),
     other         |-> Take(SelectSeq(ranked, IsOther), 10)]

NoSections ==
    [high_priority |-> <<>>, paypig |-> <<>>, findomme |-> <<>>, other |-> <<>>]

\* No kind, score and signals computed yet.
NoResult == [kind |-> "none", score |-> 0, signals |-> <<>>]

\* No call of a pure function on its own is under way.
NoCall == [fn |-> "none", done |-> FALSE, feed_name |-> <<>>, title |-> <<>>,
           age_h |-> 0, result |-> NoResult, before |-> NoResult,
           ranked |-> <<>>, report |-> NoSections,
           variant |-> "none", created_ts |-> 0]


-----------------------------------------------------------------------------
(* Calls of classify, compute_score and the split on their own.            *)

\* The feed names of build_feeds (lines 51-60), and no name at all.
FeedLabels == {
    <<>>,
    <<"F", "i", "n", "d", "o", "m", " ", "g", "e", "n", "e", "r", "a", "l">>,
    <<"P", "a", "y", "p", "i", "g">>,
    <<"B", "e", "g", "i", "n", "n", "e", "r", " ", "f", "i", "n", "d", "o", "m", "m", "e">>,
    <<"P", "l", "a", "t", "f", "o", "r", "m", "s">>,
    <<"T", "e", "a", "m", "V", "i", "e", "w", "e", "r">>,
    <<"T", "e", "l", "e", "g", "r", "a", "m">>,
    <<"F", "e", "m", "d", "o", "m", " ", "i", "n", " ", "m", "e", "d", "i", "a">>,
    <<"M", "a", "n", "g", "a", " ", "c", "o", "m", "i", "c", "s">>,
    <<"F", "i", "n", "d", "o", "m", " ", "s", "t", "o", "r", "i", "e", "s">>,
    <<"F", "i", "n", "d", "o", "m", " ", "f", "o", "r", "u", "m">> }

\* Pieces of titles: keywords of every category in mixed case, scored
\* keywords and a word without meaning.
TitleWords == {
    <<"D", "o", "m", "m", "e">>,
    <<"p", "a", "y", " ", "p", "i", "g">>,
    <<"T", "V">>,
    <<"x">>,
    <<"B", "e", "g", "i", "n", "n", "e", "r", " ", "h", "e", "l", "p">>,
    <<"H", "o", "w", " ", "d", "o", " ", "I", " ", "s", "t", "a", "r", "t">> }

\* A title is made of at most this many pieces.
MaxWords == 2

\* The titles of at most n pieces, pieces separated by a blank.
RECURSIVE TitlesOf(_)
TitlesOf(n) ==
    IF n <= 1 THEN TitleWords
    ELSE TitlesOf(n - 1)
            \cup {t \o <<" ">> \o w : t \in TitlesOf(n - 1), w \in TitleWords}

\* Two titles as they stand.
T_beginner_findomme == <<"H", "o", "w", " ", "d", "o", " ", "I", " ", "s", "t", "a", "r", "t", " ", "a", "s", " ", "a", " ", "b", "e", "g", "i", "n", "n", "e", "r", " ", "f", "i", "n", "d", "o", "m", "m", "e", "?">>
T_weekly_megathread == <<"W", "e", "e", "k", "l", "y", " ", "M", "e", "g", "a", "t", "h", "r", "e", "a", "d">>

\* A title that holds "starting", and with it "start".
T_starting_out == <<"S", "t", "a", "r", "t", "i", "n", "g", " ", "o", "u", "t">>

\* Titles with capitals outside ASCII: the kelvin sign, which lower() turns
\* into k; the capital I with a dot, which it turns into i and a combining
\* dot; a capital of Latin-1; and a title padded with a carriage return and
\* a no-break space.
T_kelvin_weekly_thread == <<"W", "e", "e", "U+212A", "l", "y", " ", "t", "h", "r", "e", "a", "d">>
T_dotted_advice == <<"A", "D", "V", "U+0130", "C", "E">>
T_tele == <<"T", "U+00C9", "L", "U+00C9">>
T_padded_help == <<"\r", "H", "e", "l", "p", "U+00A0">>

Titles ==
    TitlesOf(MaxWords)
        \cup {T_beginner_findomme, T_weekly_megathread, T_starting_out}

\* Ages in hours, some in every tier of lines 133-143.
Ages == {1, 5, 24, 72}

\* Lines 226-227: kind, score and signals of an item.
EvalResult(feed_name, title, age_h) ==
    LET sc == compute_score(feed_name, title, age_h)
    IN  [kind |-> classify(feed_name, title), score |-> sc.score,
         signals |-> sc.reasons]

\* The ages on both sides of every comparison of lines 133-142.
TierEdgeAges == {0, 2, 3, 6, 7, 12, 13, 47, 48}

ScoreCalls ==
    {[NoCall EXCEPT !.fn = "score", !.feed_name = f, !.title = t, !.age_h = a] :
        f \in FeedLabels, t \in Titles, a \in Ages}
    \cup
    {[NoCall EXCEPT !.fn = "score", !.title = t, !.age_h = a] :
        t \in {<<"x">>, T_weekly_megathread, T_kelvin_weekly_thread,
                T_dotted_advice, T_tele, T_padded_help},
        a \in TierEdgeAges}

\* The split is called on lists of at most this many items.
MaxRanked == 11

Digits == <<"0", "1", "2", "3", "4", "5", "6", "7", "8", "9">>

\* One title per kind when the feed is the first one: PAYPIG, MEDIA,
\* FINDOMME, GENERAL.
KindTitles == << <<"p", "a", "y", " ", "p", "i", "g">>,
                <<"T", "V">>,
                <<"D", "o", "m", "m", "e">>,
                <<"S", "a", "f", "e", " ", "a", "d", "v", "i", "c", "e">> >>

\* The i-th item of a list whose kinds go round KindTitles in steps of
\* `step` from `off`; its identity is made of i.
PatternItem(i, step, off) ==
    MakeItem(Entry(<<"t", Digits[(i \div 10) + 1], Digits[(i % 10) + 1]>>,
                   <<"l">>, KindTitles[(((i - 1) * step + off) % 4) + 1],
                   NoTime, NoTime),
             build_feeds[1], Now0)

\* Ranked lists: all of one kind, two kinds alternating, all four in turn.
RankedLists ==
    {SortCollected([i \in 1..n |-> PatternItem(i, step, off)]) :
        n \in 0..MaxRanked, step \in 0..2, off \in 0..3}

\* Entries on both sides of the two tests of line 258, the feed being the
\* first one: score 15 at age 0, score 12 at age 13, score 10 at age 12,
\* score 9 at age 0.
HighCases == <<
    [title |-> T_beginner_findomme, published |-> NoTime],
    [title |-> T_beginner_findomme, published |-> Now0 - 13 * HOUR],
    [title |-> <<"H", "o", "w", " ", "d", "o", " ", "I", " ", "s", "t", "a", "r", "t", "?">>,
     published |-> Now0 - 12 * HOUR],
    [title |-> <<"b", "e", "g", "i", "n", "n", "e", "r", " ", "h", "o", "w", " ", "t", "o">>,
     published |-> NoTime] >>

\* The i-th item of a list whose entries go round HighCases in steps of
\* `step` from `off`.
HighPatternItem(i, step, off) ==
    LET c == HighCases[(((i - 1) * step + off) % 4) + 1]
    IN  MakeItem(Entry(<<"t", Digits[(i \div 10) + 1], Digits[(i % 10) + 1]>>,
                       <<"l">>, c.title, c.published, NoTime),
                 build_feeds[1], Now0)

\* Ranked lists of such items.
HighLists ==
    {SortCollected([i \in 1..n |-> HighPatternItem(i, step, off)]) :
        n \in 1..MaxRanked, step \in 0..2, off \in 0..3}

SplitCalls ==
    {[NoCall EXCEPT !.fn = "split", !.ranked = r] :
        r \in RankedLists \cup HighLists}

\* The two scripts of the repository that compute an age: rss_digest.py and
\* .github/workflows/rss_digest.py.
Variants == {"rss_digest", "workflows"}

\* Creation instants around the clock of the call: hours back, the second
\* before, the very second, and instants still to come.
CreationInstants ==
    {Now0 - 3 * HOUR, Now0 - HOUR - 1, Now0 - HOUR, Now0 - 1, Now0, Now0 + 1,
     Now0 + TickSeconds, Now0 + HOUR, Now0 + HOUR + 1}

AgeCalls ==
    {[NoCall EXCEPT !.fn = "age", !.variant = v, !.created_ts = t] :
        v \in Variants, t \in CreationInstants}

-----------------------------------------------------------------------------
(* The report, lines 263-514. A text is a sequence of pieces whose         *)
(* concatenation is the text: character by character where the code looks *)
(* inside it, literal by literal elsewhere.                                *)

\* str() of an integer, as the f-strings apply it.
RECURSIVE DigitsOf(_)
DigitsOf(n) ==
    IF n < 10 THEN <<Digits[n + 1]>>
    ELSE DigitsOf(n \div 10) \o <<Digits[(n % 10) + 1]>>

str(n) == IF n < 0 THEN <<"-">> \o DigitsOf(0 - n) ELSE DigitsOf(n)

\* n with leading zeros up to w digits (%Y, %m, %d, %H, %M, %S).
RECURSIVE ZeroPad(_, _)
ZeroPad(n, w) ==
    IF w <= 1 THEN DigitsOf(n)
    ELSE IF Len(DigitsOf(n)) >= w THEN DigitsOf(n)
    ELSE <<"0">> \o ZeroPad(n, w - 1)

\* utc_now().strftime("%Y%m%d_%H%M%S") at epoch second ts (line 253): the
\* civil date of the day number, then the time of day.
run_stamp(ts) ==
    LET days == ts \div 86400
        secs == ts % 86400
        z    == days + 719468
        era  == z \div 146097
        doe  == z - era * 146097
        yoe  == (doe - doe \div 1460 + doe \div 36524 - doe \div 146096) \div 365
        doy  == doe - (365 * yoe + yoe \div 4 - yoe \div 100)
        mp   == (5 * doy + 2) \div 153
        d    == doy - (153 * mp + 2) \div 5 + 1
        m    == IF mp < 10 THEN mp + 3 ELSE mp - 9
        y    == yoe + era * 400 + (IF m <= 2 THEN 1 ELSE 0)
    IN  ZeroPad(y, 4) \o ZeroPad(m, 2) \o ZeroPad(d, 2) \o <<"_">>
            \o ZeroPad(secs \div 3600, 2) \o ZeroPad((secs % 3600) \div 60, 2)
            \o ZeroPad(secs % 60, 2)

\* Path(__file__).resolve().parent (line 13): the absolute path of the
\* directory that holds the script, here src of the checkout.
BASE_DIR == Chars("/root/workspace/src")

\* OUTPUT_DIR / f"queue_{run_stamp}.json" (lines 15, 254).
out_path(ts) ==
    BASE_DIR \o Chars("/output/queue_") \o run_stamp(ts) \o Chars(".json")

\* ", ".join(xs)
RECURSIVE Join(_)
Join(xs) ==
    IF Len(xs) = 0 THEN <<>>
    ELSE IF Len(xs) = 1 THEN <<xs[1]>>
    ELSE <<xs[1], ", ">> \o Join(Tail(xs))

\* The names of the four blocks of the plain text, lines 288-291.
N_high == <<"H", "I", "G", "H", " ", "P", "R", "I", "O", "R", "I", "T", "Y", " ", "(", "d", "o", " ", "t", "h", "e", "s", "e", " ", "f", "i", "r", "s", "t", ")">>
N_paypig == <<"P", "A", "Y", "P", "I", "G", " ", "L", "E", "A", "D", "S">>
N_findomme == <<"F", "I", "N", "D", "O", "M", "M", "E", " ", "L", "E", "A", "D", "S">>
N_other == <<"O", "T", "H", "E", "R">>

\* Lines 280-285: the five lines of the i-th item of a block.
ItemLines(i, it) ==
    << str(i) \o <<". [", it.kind, "] score ">> \o str(it.score)
            \o <<" age ">> \o str(it.age_hours) \o <<"h, signals: ">>
            \o Join(it.signals),
       <<"   ">> \o it.title,
       <<"   ">> \o it.url,
       <<"   Opening: ", it.opening>>,
       <<>> >>

\* The loop of lines 279-284 from the i-th item on.
RECURSIVE BlockItems(_, _)
BlockItems(items, i) ==
    IF i > Len(items) THEN <<>>
    ELSE ItemLines(i, items[i]) \o BlockItems(items, i + 1)

\* Variant of add_block: a block without items is left out.
add_block_skips_empty(name, items) ==
    IF items = <<>> THEN <<>>
    ELSE <<name, [k \in 1..Len(name) |-> "-"]>>
            \o BlockItems(items, 1) \o << <<>> >>

\* add_block, lines 273-286: the lines it appends.
add_block(name, items) ==
    <<name, [k \in 1..Len(name) |-> "-"]>>
        \o (IF items = <<>> THEN << <<"None">>, <<>> >>
            ELSE BlockItems(items, 1) \o << <<>> >>)

\* Lines 264-291: the lines of body_text.
body_text(count, stamp, sec) ==
    << <<"YMS Reddit queue (manual actions)">>,
       <<>>,
       <<"Routine: pick 3 threads, reply with value, usually no links in the comment.">>,
       <<>>,
       <<"Items collected: ">> \o str(count),
       <<"Saved: ">> \o out_path(stamp),
       <<>> >>
        \o add_block(N_high, sec.high_priority)
        \o add_block(N_paypig, sec.paypig)
        \o add_block(N_findomme, sec.findomme)
        \o add_block(N_other, sec.other)

\* Line 293.
subject(count) == <<"YMS Reddit leads: ">> \o str(count) \o <<" new items">>

\* esc, lines 297-298, piece by piece.
esc(text) ==
    [k \in 1..Len(text) |->
        IF text[k] = "&" THEN "&amp;"
        ELSE IF text[k] = "<" THEN "&lt;"
        ELSE IF text[k] = ">" THEN "&gt;"
        ELSE text[k]]

\* badge, lines 300-307.
badge(kind) ==
    IF kind = "PAYPIG" THEN "<span class=\"b b-paypig\">PAYPIG</span>"
    ELSE IF kind = "FINDOMME" THEN "<span class=\"b b-findomme\">FINDOMME</span>"
    ELSE IF kind = "MEDIA" THEN "<span class=\"b b-media\">MEDIA</span>"
    ELSE "<span class=\"b b-general\">GENERAL</span>"

\* Lines 314-334: the table row of the i-th item. "U+00B7" stands for the
\* one character of that code point (the middle dot of line 322).
TableRow(i, it) ==
    <<"<tr>", "<td class=\"num\">">> \o str(i) \o <<"</td>", badge(it.kind),
      "<div class=\"feed\">">> \o esc(it.feed) \o <<"</div>", "score ">>
        \o str(it.score) \o <<" ", "U+00B7", " ">> \o str(it.age_hours)
        \o <<"h", "signals: ">> \o esc(Join(it.signals))
        \o <<"<div class=\"t\">">> \o esc(it.title)
        \o <<"</div>", "<b>Opening:</b> ">> \o esc(<<it.opening>>)
        \o <<"<a class=\"btn\" href=\"">> \o it.url
        \o <<"\">Open</a>", "</tr>">>

RECURSIVE TableRows(_, _)
TableRows(items, i) ==
    IF i > Len(items) THEN <<>>
    ELSE TableRow(i, items[i]) \o TableRows(items, i + 1)

\* render_table, lines 309-349.
render_table(items) ==
    IF items = <<>> THEN <<"<div class=\"empty\">No items.</div>">>
    ELSE <<"<table>", "<thead>", "<tbody>">> \o TableRows(items, 1)
            \o <<"</tbody>", "</table>">>

\* Lines 351-514: body_html from <body> on; the markup between the pieces
\* named here is constant and is left out.
body_html(count, sec) ==
    <<"<h1>YMS Reddit leads</h1>", "<b>Items collected:</b> ">> \o str(count)
        \o <<"<h2>HIGH PRIORITY</h2>">> \o render_table(sec.high_priority)
        \o <<"<h2>PAYPIG LEADS</h2>">> \o render_table(sec.paypig)
        \o <<"<h2>FINDOMME LEADS</h2>">> \o render_table(sec.findomme)
        \o <<"<h2>OTHER</h2>">> \o render_table(sec.other)

\* What is handed to send_email at line 516.
Mail(count, stamp, sec) ==
    [subject |-> subject(count), body_text |-> body_text(count, stamp, sec),
     body_html |-> body_html(count, sec)]

\* Nothing rendered yet.
NoMail == [subject |-> <<>>, body_text |-> <<>>, body_html |-> <<>>]

-----------------------------------------------------------------------------
(* scripts/publish_one.py: one keyword of data/keywords.csv is turned into *)
(* a WordPress draft and the row of the keyword is marked.                 *)

\* Values of the status column, as they are found in a file.
S_todo == <<"t", "o", "d", "o">>
S_Todo_padded == <<" ", "T", "o", "d", "o">>
S_done == <<"d", "o", "n", "e">>
S_error == <<"e", "r", "r", "o", "r">>

\* The columns of a file that was made for the script, and of one that holds
\* the keywords only; main takes the columns of the first row (line 318).
FullHeader == {"keyword", "cluster", "status", "wp_post_id", "last_error"}
ShortHeader == {"keyword", "cluster", "status"}

\* A file holds at most this many rows.
MaxRows == 3

\* The rows a file can hold: a keyword or a blank one, todo in two
\* spellings or done (with the id of its post where there is a column for it).
RowsOf(header) ==
    {[c \in header |->
        IF c = "keyword" THEN k
        ELSE IF c = "status" THEN st
        ELSE IF c = "wp_post_id" /\ st = S_done THEN <<"5">>
        ELSE <<>>] :
        k \in {<<"k">>, <<" ">>}, st \in {S_todo, S_Todo_padded, S_done}}

\* The sequences of at most n rows.
RECURSIVE RowSeqs(_, _)
RowSeqs(header, n) ==
    IF n = 0 THEN {<<>>}
    ELSE LET shorter == RowSeqs(header, n - 1)
         IN  shorter \cup {Append(rs, r) : rs \in shorter, r \in RowsOf(header)}

\* data/keywords.csv: not there, or a header and rows.
NoCsv == [exists |-> FALSE, fieldnames |-> {}, rows |-> <<>>]
CsvFile(header, rows) == [exists |-> TRUE, fieldnames |-> header, rows |-> rows]
CsvFiles ==
    {NoCsv}
        \cup {CsvFile(FullHeader, rs) : rs \in RowSeqs(FullHeader, MaxRows)}
        \cup {CsvFile(ShortHeader, rs) : rs \in RowSeqs(ShortHeader, MaxRows)}

\* read_first_todo_row, lines 36-47: the place of the first row whose
\* status, stripped and lowered, is todo; 0 when there is none (-1 in the
\* source, whose places start at 0).
read_first_todo_row(rows) ==
    LET todo == {i \in 1..Len(rows) : lower(strip(rows[i].status)) = S_todo}
    IN  IF todo = {} THEN 0 ELSE CHOOSE i \in todo : \A j \in todo : i <= j

\* rows[idx][column] = value, the column being added when the row has none.
SetColumn(row, column, value) ==
    [c \in DOMAIN row \cup {column} |-> IF c = column THEN value ELSE row[c]]

\* Lines 316-317 and 337-338: the row is marked as failed.
MarkError(rows, idx, message) ==
    [rows EXCEPT ![idx] =
        SetColumn(SetColumn(rows[idx], "status", S_error), "last_error", message)]

\* Lines 331-333: the row is marked as done.
MarkDone(rows, idx, post_id) ==
    [rows EXCEPT ![idx] =
        SetColumn(SetColumn(SetColumn(rows[idx], "status", S_done),
                            "wp_post_id", str(post_id)),
                  "last_error", <<>>)]

\* write_rows with the fieldnames of lines 318 and 341, lines 50-54: the
\* file is opened for writing, the header is written, then row after row;
\* csv.DictWriter raises on the first row that holds a column the
\* fieldnames do not name, and the rows before it are all the file holds.
write_rows(rows) ==
    LET fieldnames == IF rows # <<>> THEN DOMAIN rows[1] ELSE FullHeader
        bad == {i \in 1..Len(rows) : ~(DOMAIN rows[i] \subseteq fieldnames)}
        upto == IF bad = {} THEN Len(rows)
                ELSE (CHOOSE i \in bad : \A j \in bad : i <= j) - 1
    IN  [raised |-> bad # {},
         file |-> CsvFile(fieldnames,
                          [i \in 1..upto |->
                              [c \in fieldnames |->
                                  IF c \in DOMAIN rows[i] THEN rows[i][c]
                                  ELSE <<>>]])]

\* The id WordPress gives to the draft (lines 297-298).
POST_ID == 123

\* How send_notification_email can end: the mail is sent; the settings are
\* missing and it returns (lines 93-95); SMTP fails and the exception is
\* caught (lines 124-125); SMTP_PORT is not a number and int() raises
\* (line 86).
NoticeOutcomes == {"sent", "skipped", "smtp-failed", "port-raises"}

\* openai_call, line 135: the API answers with an error status; the text
\* carries the first 2000 characters of the answer.
E_generation(status, body) ==
    Chars("RuntimeError: OpenAI HTTP ") \o str(status) \o Chars(": ")
        \o Take(body, 2000)

\* openai_generate_json, line 199: the cluster has fewer than three links.
E_links_short ==
    Chars("RuntimeError: Internal links mapping must contain at least 3 URLs")

\* load_links, line 25: internal_links.json is missing (ROOT, line 13, is
\* the directory BASE_DIR of the checkout).
E_links_missing ==
    Chars("FileNotFoundError: [Errno 2] No such file or directory: ")
        \o repr(BASE_DIR \o Chars("/internal_links.json"))

\* An answer of 2002 characters.
LongBody == [i \in 1..2002 |-> IF i <= 2000 THEN "x" ELSE "y"]

\* The failures of lines 324-327 that are followed.
GenerationErrors ==
    {E_generation(500, <<>>),
     E_generation(500, Chars("{\"error\": {\"message\": \"server error\"}}")),
     E_generation(429, Chars("{\"error\": {\"message\": \"rate limit\"}}")),
     E_generation(502, LongBody),
     E_links_short, E_links_missing}

\* WP_BASE_URL without its trailing slash (line 275).
WP_BASE_URL == Chars("https://example.com")

\* wp_create_draft, line 296: raise_for_status of requests on an error
\* status.
E_draft(status, side, reason) ==
    Chars("HTTPError: ") \o str(status) \o Chars(" ") \o Chars(side)
        \o Chars(" Error: ") \o Chars(reason) \o Chars(" for url: ")
        \o WP_BASE_URL \o Chars("/wp-json/wp/v2/posts")

\* wp_create_draft, line 275: WP_BASE_URL is not set.
E_no_base_url == Chars("KeyError: ") \o repr(Chars("WP_BASE_URL"))

\* The failures of line 328 that are followed.
DraftErrors ==
    {E_draft(500, "Server", "Internal Server Error"),
     E_draft(401, "Client", "Unauthorized"),
     E_no_base_url}

\* Values of SMTP_PORT that int() rejects.
BadPorts ==
    {<<>>, Chars("smtp"), Chars("5'87"), <<"5", "8", "\t", "7">>,
     <<"a", "\\", "b">>, <<"5", "U+00A0", "8">>}

\* send_notification_email, line 86: int() of such a value; the text
\* carries the first 200 characters of its repr().
E_port(text) ==
    Chars("ValueError: invalid literal for int() with base 10: ")
        \o Take(repr(text), 200)

\* Line 317.
E_empty_keyword == Chars("Empty keyword")

\* No invocation of main is under way.
NoPub == [pc |-> "none", file |-> NoCsv, file0 |-> NoCsv, rows |-> <<>>,
          idx |-> 0, generated |-> FALSE, drafted |-> FALSE,
          notice |-> "none", rc |-> 0 - 1]

\* main is about to be invoked on a file.
PubStarts ==
    {[NoPub EXCEPT !.pc = "start", !.file = f, !.file0 = f] : f \in CsvFiles}

-----------------------------------------------------------------------------
(* State.                                                                  *)

VARIABLES
    now,            \* the wall clock, epoch seconds
    fixture,        \* what each feed returns when it answers
    max_items,      \* MAX_ITEMS_PER_RUN
    backfill_hours, \* BACKFILL_HOURS
    stateFile,      \* state.json
    faults,         \* failures of the environment so far
    output,         \* the queue_<stamp>.json written last: whole (json) or cut off
    pc,             \* the stage of the run
    ip,             \* inside Ingesting: "fetch", "entry" or "check"
    feedIdx,        \* index of the feed being processed
    entIdx,         \* index of the entry being processed
    batch,          \* d.entries[:200] of the feed being processed
    seen,           \* the in-memory seen set: its identities that a feed can return
    seenOthers,     \* the in-memory seen set: the number of its other identities
    last_run_ts,    \* line 200
    min_ts,         \* line 202
    collected,      \* the collected items
    report,         \* the four sections of the report
    mail,           \* subject and the two bodies built for send_email
    delivered,      \* send_email returned in this run
    \* bookkeeping about the run, read by the properties only
    runNo,          \* number of runs started
    fileAtStart,    \* state.json as it was when the run started
    writes,         \* save_state calls of this run that returned
    fetches,        \* feedparser.parse calls of this run
    loadedAt,       \* the clock when line 202 was evaluated
    failedAt,       \* the stage the run failed in, or "none"
    lastVerdict,    \* identity and verdict of the entry processed last
    admittedRaw,    \* the feed entries admitted by this run
    discovered,     \* the items of this run in the order they were admitted
    srcDown,        \* some feed of this run gave no entries or raised
    prev,           \* summary of the previous run
    priorCommitted, \* every identity committed by a run before this one
    \* one call of the pure functions on its own, outside a run
    call,           \* arguments and result of classify, compute_score, the split
    \* one invocation of main of scripts/publish_one.py
    pub             \* the keywords file, the rows in memory, the place in main

vars == <<now, fixture, max_items, backfill_hours, stateFile, faults, output, pc, ip,
          feedIdx, entIdx, batch, seen, seenOthers, last_run_ts, min_ts, collected,
          report, mail, delivered, runNo, fileAtStart, writes, fetches, loadedAt, failedAt,
          lastVerdict, admittedRaw, discovered, srcDown, prev, priorCommitted,
          call, pub>>

env == <<fixture, max_items, backfill_hours>>
locals == <<ip, feedIdx, entIdx, batch, seen, seenOthers, last_run_ts, min_ts, collected,
            report, mail, delivered>>
book == <<runNo, fileAtStart, writes, fetches, loadedAt, failedAt, lastVerdict,
          admittedRaw, discovered, srcDown, prev, priorCommitted>>

\* No queue file has been written.
NoOutput == [kind |-> "none", stamp |-> NoTime, count |-> 0]

NoVerdict == [eid |-> <<>>, result |-> "none"]
NoPrev == [outcome |-> "none", failedAt |-> "none", windowed |-> FALSE,
           min_ts |-> 0, last_run_ts |-> 0, admitted |-> {}, capped |-> FALSE, evicted |-> FALSE,
           srcDown |-> FALSE]

\* No run has started yet.
NotStarted ==
    /\ now = Now0
    /\ faults = 0
    /\ output = NoOutput
    /\ pc = "Idle"
    /\ ip = "fetch"
    /\ feedIdx = 1
    /\ entIdx = 1
    /\ batch = <<>>
    /\ seen = {}
    /\ seenOthers = 0
    /\ last_run_ts = 0
    /\ min_ts = 0
    /\ collected = <<>>
    /\ report = NoSections
    /\ mail = NoMail
    /\ delivered = FALSE
    /\ runNo = 0
    /\ fileAtStart = stateFile
    /\ writes = 0
    /\ fetches = 0
    /\ loadedAt = NoTime
    /\ failedAt = "none"
    /\ lastVerdict = NoVerdict
    /\ admittedRaw = {}
    /\ discovered = <<>>
    /\ srcDown = FALSE
    /\ prev = NoPrev
    /\ priorCommitted = {}

\* The settings and the state file a sequence of runs starts with. A run
\* over a full state file is taken with the default settings.
Init ==
    /\ fixture \in Fixtures
    /\ max_items \in MaxItemsChoices
    /\ backfill_hours \in BackfillChoices
    /\ stateFile \in InitialFiles
    /\ stateFile.kind = "json" =>
          (max_items = MAX_ITEMS_DEFAULT /\ backfill_hours = BACKFILL_DEFAULT)
    /\ NotStarted
    /\ call = NoCall
    /\ pub = NoPub

\* A pure function is called on its own: no run is started.
InitFn ==
    /\ fixture = NoEntries
    /\ max_items = MAX_ITEMS_DEFAULT
    /\ backfill_hours = BACKFILL_DEFAULT
    /\ stateFile = AbsentFile
    /\ NotStarted
    /\ call \in ScoreCalls \cup SplitCalls \cup AgeCalls
    /\ pub = NoPub

-----------------------------------------------------------------------------
(* The steps of run().                                                     *)

\* The script is invoked: `if __name__ == "__main__": run()`.
StartRun ==
    /\ pc \in {"Idle", "Done", "Failed"}
    /\ runNo < MaxRuns
    /\ pc' = "Loading"
    /\ ip' = "fetch"
    /\ feedIdx' = 1
    /\ entIdx' = 1
    /\ batch' = <<>>
    /\ seen' = {}
    /\ seenOthers' = 0
    /\ last_run_ts' = 0
    /\ min_ts' = 0
    /\ collected' = <<>>
    /\ report' = NoSections
    /\ mail' = NoMail
    /\ delivered' = FALSE
    /\ runNo' = runNo + 1
    /\ fileAtStart' = stateFile
    /\ writes' = 0
    /\ fetches' = 0
    /\ loadedAt' = NoTime
    /\ failedAt' = "none"
    /\ lastVerdict' = NoVerdict
    /\ admittedRaw' = {}
    /\ discovered' = <<>>
    /\ srcDown' = FALSE
    /\ prev' = IF pc = "Idle" THEN NoPrev
               ELSE [outcome |-> pc, failedAt |-> failedAt,
                     windowed |-> failedAt # "Loading", min_ts |-> min_ts,
                     last_run_ts |-> last_run_ts,
                     admitted |-> admittedRaw,
                     capped |-> Len(collected) >= max_items,
                     evicted |-> pc = "Done" /\ SeenSize(seen, seenOthers) > SEEN_LIMIT,
                     srcDown |-> srcDown]
    /\ priorCommitted' = priorCommitted \cup stateFile.seen_ids
    /\ UNCHANGED <<now, env, call, pub, stateFile, faults, output>>

\* Lines 197-207: load_state raises on a corrupt file and run() ends there.
LoadState ==
    /\ pc = "Loading"
    /\ LET state == load_state(stateFile)
       IN  IF state.raised
           THEN /\ pc' = "Failed"
                /\ failedAt' = "Loading"
                /\ UNCHANGED <<seen, seenOthers, last_run_ts, min_ts, loadedAt>>
           ELSE /\ pc' = "Ingesting"
                /\ seen' = state.seen_ids
                /\ seenOthers' = state.others
                /\ last_run_ts' = state.last_run_utc_ts
                /\ min_ts' = WindowLowerBound(state.last_run_utc_ts, now,
                                              backfill_hours)
                /\ loadedAt' = now
                /\ UNCHANGED failedAt
    /\ UNCHANGED <<now, env, call, pub, stateFile, faults, output, ip, feedIdx, entIdx,
                   batch, collected, report, mail, delivered, runNo, fileAtStart,
                   writes, fetches, lastVerdict, admittedRaw, discovered, srcDown, prev,
                   priorCommitted>>

\* Line 210, feedparser.parse(feed_url), has three outcomes: the feed's
\* entries; no entries, when the feed has none or when feedparser reports
\* the failure in its result; an exception, when feedparser lets one through
\* (it catches URLError only: a connection that is dropped before the reply,
\* a reply that breaks off or a timeout while reading are raised). Nothing in
\* run() catches it, so the run ends in the loop over the feeds.
FetchFeed ==
    /\ pc = "Ingesting" /\ ip = "fetch"
    /\ \E answer \in {"entries", "nothing", "raises"} :
          /\ answer # "entries" => faults < MaxFaults
          /\ faults' = IF answer = "entries" THEN faults ELSE faults + 1
          /\ srcDown' = (srcDown \/ answer # "entries")
          /\ IF answer = "raises"
             THEN /\ pc' = "Failed"
                  /\ failedAt' = "Ingesting"
                  /\ UNCHANGED <<batch, ip, entIdx>>
             ELSE /\ batch' = IF answer = "entries"
                               THEN Take(fixture[feedIdx], PER_SOURCE_CAP)
                               ELSE <<>>
                  /\ ip' = IF batch' = <<>> THEN "check" ELSE "entry"
                  /\ entIdx' = 1
                  /\ UNCHANGED <<pc, failedAt>>
    /\ fetches' = fetches + 1
    /\ UNCHANGED <<now, env, call, pub, stateFile, output, feedIdx, seen, seenOthers, last_run_ts,
                   min_ts, collected, report, mail, delivered, runNo, fileAtStart,
                   writes, loadedAt, lastVerdict, admittedRaw, discovered, prev,
                   priorCommitted>>

\* One pass of the inner loop, lines 211-247.
ProcessEntry ==
    /\ pc = "Ingesting" /\ ip = "entry"
    /\ LET entry == batch[entIdx]
           v == Verdict(entry, seen, min_ts, now)
           item == MakeItem(entry, build_feeds[feedIdx], now)
       IN  /\ lastVerdict' = [eid |-> Identity(entry), result |-> v]
           /\ IF v = "admitted"
              THEN /\ collected' = Append(collected, item)
                   /\ seen' = SeenAfterAdmit(seen, Identity(entry))
                   /\ admittedRaw' = admittedRaw \cup {entry}
                   /\ discovered' = Append(discovered, item)
              ELSE UNCHANGED <<collected, seen, admittedRaw, discovered>>
           /\ IF (v = "admitted" /\ CapReachedInSource(Len(collected'), max_items))
                 \/ entIdx = Len(batch)
              THEN ip' = "check"
              ELSE ip' = "entry"
           /\ entIdx' = entIdx + 1
    /\ UNCHANGED <<now, env, call, pub, stateFile, faults, output, pc, feedIdx, batch,
                   seenOthers, last_run_ts,
                   min_ts, report, mail, delivered, runNo, fileAtStart, writes,
                   fetches, loadedAt, failedAt, srcDown, prev, priorCommitted>>

\* Lines 248-249 and the head of the outer loop.
NextFeed ==
    /\ pc = "Ingesting" /\ ip = "check"
    /\ IF CapReachedAfterSource(Len(collected), max_items) \/ feedIdx = NumFeeds
       THEN /\ pc' = "Ranking"
            /\ UNCHANGED <<feedIdx, ip>>
       ELSE /\ feedIdx' = feedIdx + 1
            /\ ip' = "fetch"
            /\ UNCHANGED pc
    /\ UNCHANGED <<now, env, call, pub, stateFile, faults, output, entIdx, batch, seen, seenOthers,
                   last_run_ts, min_ts, collected, report, mail, delivered, book>>

\* Line 251.
Rank ==
    /\ pc = "Ranking"
    /\ collected' = SortCollected(collected)
    /\ pc' = "Rendering"
    /\ UNCHANGED <<now, env, call, pub, stateFile, faults, output, ip, feedIdx, entIdx,
                   batch, seen, seenOthers, last_run_ts, min_ts, report, mail, delivered, book>>

\* Lines 253-514 when nothing raises: the queue file is written, the ranked
\* list is split into the sections and the two bodies are built.
RenderOk ==
    /\ output' = [kind |-> "json", stamp |-> now, count |-> Len(collected)]
    /\ report' = Sections(collected)
    /\ mail' = Mail(Len(collected), now, report')
    /\ pc' = "Dispatching"
    /\ UNCHANGED <<failedAt, stateFile, writes, faults>>

\* out_path.write_text (line 255) raises OSError and run() ends there: the
\* queue file is not there when it could not be opened, and it is there,
\* empty or cut off part-way and so not JSON, when the writing broke off
\* (write_text creates the file before it writes).
RenderFailure ==
    /\ pc' = "Failed"
    /\ failedAt' = "Rendering"
    /\ output' \in {output, [kind |-> "cut", stamp |-> now, count |-> 0]}
    /\ UNCHANGED <<report, mail, stateFile, writes>>

\* Lines 253-514.
Render ==
    /\ pc = "Rendering"
    /\ \/ RenderOk
       \/ (faults < MaxFaults /\ faults' = faults + 1 /\ RenderFailure)
    /\ UNCHANGED <<now, env, call, pub, ip, feedIdx, entIdx, batch, seen, seenOthers, last_run_ts,
                   min_ts, collected, delivered, runNo, fileAtStart, fetches,
                   loadedAt, lastVerdict, admittedRaw, discovered, srcDown, prev,
                   priorCommitted>>

\* Variant of DispatchFailure: the state is saved although the mail failed.
DispatchFailure_commits ==
    /\ pc' = "Failed"
    /\ failedAt' = "Dispatching"
    /\ stateFile' = JsonFile(seen, seenOthers, now)
    /\ writes' = writes + 1
    /\ UNCHANGED delivered

\* What a failed send_email leaves behind: the exception leaves run().
DispatchFailure ==
    /\ pc' = "Failed"
    /\ failedAt' = "Dispatching"
    /\ UNCHANGED <<stateFile, delivered, writes>>

\* Line 516: send_email returns, or raises (missing SMTP settings, SMTP error).
Dispatch ==
    /\ pc = "Dispatching"
    /\ \/ /\ delivered' = TRUE
          /\ pc' = "Committing"
          /\ UNCHANGED <<failedAt, stateFile, writes, faults>>
       \/ /\ faults < MaxFaults
          /\ faults' = faults + 1
          /\ DispatchFailure
    /\ UNCHANGED <<now, env, call, pub, output, ip, feedIdx, entIdx, batch, seen, seenOthers,
                   last_run_ts, min_ts, collected, report, mail, runNo, fileAtStart,
                   fetches, loadedAt, lastVerdict, admittedRaw, discovered, srcDown, prev,
                   priorCommitted>>

\* Lines 518-520 when nothing raises: the trimmed seen set and the clock
\* are written to state.json.
CommitOk ==
    /\ \E kept \in LastOfSeen(seen, seenOthers) :
          stateFile' = JsonFile(kept.ids, kept.others, CommitStamp(now))
    /\ writes' = writes + 1
    /\ pc' = "Done"
    /\ UNCHANGED <<failedAt, faults>>

\* What a failed save_state leaves behind (line 520, write_text raises
\* OSError): the file as it was when it could not be opened for writing,
\* and a file that does not hold JSON when the writing broke off.
CommitFailure ==
    /\ pc' = "Failed"
    /\ failedAt' = "Committing"
    /\ stateFile' \in {stateFile, CorruptFile}
    /\ UNCHANGED writes

\* Lines 518-520.
Commit ==
    /\ pc = "Committing"
    /\ \/ CommitOk
       \/ /\ faults < MaxFaults
          /\ faults' = faults + 1
          /\ CommitFailure
    /\ UNCHANGED <<now, env, call, pub, output, locals, runNo, fileAtStart,
                   fetches, loadedAt, lastVerdict, admittedRaw, discovered, srcDown, prev,
                   priorCommitted>>

\* Time passes: between runs, and while the run waits for a feed or for the
\* mail server (the rest of a run is computation).
Tick ==
    /\ \/ pc \in {"Idle", "Done", "Failed", "Dispatching"}
       \/ pc = "Ingesting" /\ ip = "fetch"
    /\ now < Now0 + MaxTicks * TickSeconds
    /\ now' = now + TickSeconds
    /\ UNCHANGED <<env, call, pub, stateFile, faults, output, pc, locals, book>>

Next ==
    \/ StartRun
    \/ LoadState
    \/ FetchFeed
    \/ ProcessEntry
    \/ NextFeed
    \/ Rank
    \/ Render
    \/ Dispatch
    \/ Commit
    \/ Tick

Spec == Init /\ [][Next]_vars

\* classify and compute_score are applied to the arguments of the call.
CallScoring ==
    /\ call.fn = "score" /\ ~call.done
    /\ call' = [call EXCEPT !.done = TRUE,
                            !.result = EvalResult(call.feed_name, call.title,
                                                  call.age_h)]
    /\ UNCHANGED <<now, env, pub, stateFile, faults, output, pc, locals, book>>

\* The same call once more, with a question mark appended to a title that
\* has none; the first result is kept for comparison.
CallScoringWithQuestionMark ==
    /\ call.fn = "score" /\ call.done /\ call.before = NoResult
    /\ ~Contains(call.title, <<"?">>)
    /\ call' = [call EXCEPT !.title = Append(call.title, "?"),
                            !.before = call.result,
                            !.result = EvalResult(call.feed_name,
                                                  Append(call.title, "?"),
                                                  call.age_h)]
    /\ UNCHANGED <<now, env, pub, stateFile, faults, output, pc, locals, book>>

\* Lines 258-261 applied to the ranked list of the call.
CallSections ==
    /\ call.fn = "split" /\ ~call.done
    /\ call' = [call EXCEPT !.done = TRUE, !.report = Sections(call.ranked)]
    /\ UNCHANGED <<now, env, pub, stateFile, faults, output, pc, locals, book>>

\* age_hours of an item created at the instant of the call, as the script
\* named by the call computes it.
CallHoursAgo ==
    /\ call.fn = "age" /\ ~call.done
    /\ call' = [call EXCEPT
                  !.done = TRUE,
                  !.age_h = IF call.variant = "workflows"
                            THEN hours_ago_workflows(call.created_ts, now)
                            ELSE hours_ago(call.created_ts, now)]
    /\ UNCHANGED <<now, env, pub, stateFile, faults, output, pc, locals, book>>

NextFn ==
    \/ CallScoring
    \/ CallScoringWithQuestionMark
    \/ CallSections
    \/ CallHoursAgo

SpecFn == InitFn /\ [][NextFn]_vars

-----------------------------------------------------------------------------
(* main of scripts/publish_one.py, lines 301-344.                          *)

InitPub ==
    /\ fixture = NoEntries
    /\ max_items = MAX_ITEMS_DEFAULT
    /\ backfill_hours = BACKFILL_DEFAULT
    /\ stateFile = AbsentFile
    /\ NotStarted
    /\ call = NoCall
    /\ pub \in PubStarts

\* What no step of main touches.
PubFrame ==
    UNCHANGED <<now, env, call, stateFile, faults, output, pc, locals, book>>

\* Lines 50-54 as main calls them last: the file is what write_rows has
\* written, and main returns code unless write_rows raised.
WriteBack(rows, idx, code) ==
    LET w == write_rows(rows)
    IN  pub' = [pub EXCEPT !.rows = rows, !.idx = idx, !.file = w.file,
                           !.pc = IF w.raised THEN "raised" ELSE "returned",
                           !.rc = IF w.raised THEN pub.rc ELSE code]

\* Lines 302-307: without the file main returns 2; load_config raises when
\* config.json is missing or does not hold the category id.
PubLoadConfig ==
    /\ pub.pc = "start"
    /\ IF ~pub.file.exists
       THEN pub' = [pub EXCEPT !.pc = "returned", !.rc = 2]
       ELSE \E config_ok \in BOOLEAN :
               pub' = [pub EXCEPT !.pc = IF config_ok THEN "select" ELSE "raised"]
    /\ PubFrame

\* Lines 309-320: the first todo row is looked up; without one main returns
\* 0; a row without a keyword is marked and written back, and main returns 1.
PubSelect ==
    /\ pub.pc = "select"
    /\ LET rows == pub.file.rows
           idx == read_first_todo_row(rows)
       IN  IF idx = 0
           THEN pub' = [pub EXCEPT !.rows = rows, !.pc = "returned", !.rc = 0]
           ELSE IF strip(rows[idx].keyword) = <<>>
           THEN WriteBack(MarkError(rows, idx, E_empty_keyword), idx, 1)
           ELSE pub' = [pub EXCEPT !.rows = rows, !.idx = idx, !.pc = "generate"]
    /\ PubFrame

\* Lines 322-327: load_links and openai_generate_json return, or one of
\* them raises and the except clause marks the row.
PubGenerate ==
    /\ pub.pc = "generate"
    /\ \/ pub' = [pub EXCEPT !.generated = TRUE, !.pc = "draft"]
       \/ \E e \in GenerationErrors :
             pub' = [pub EXCEPT !.rows = MarkError(pub.rows, pub.idx, e),
                                !.pc = "write"]
    /\ PubFrame

\* Line 328: wp_create_draft returns the id of the draft, or raises.
PubCreateDraft ==
    /\ pub.pc = "draft"
    /\ \/ pub' = [pub EXCEPT !.drafted = TRUE, !.pc = "notify"]
       \/ \E e \in DraftErrors :
             pub' = [pub EXCEPT !.rows = MarkError(pub.rows, pub.idx, e),
                                !.pc = "write"]
    /\ PubFrame

\* Lines 329-339: send_notification_email returns, and the row is marked as
\* done, or it raises and the except clause marks the row.
PubNotify ==
    /\ pub.pc = "notify"
    /\ \E outcome \in NoticeOutcomes, port \in BadPorts :
          pub' = IF outcome = "port-raises"
                 THEN [pub EXCEPT !.notice = outcome,
                                  !.rows = MarkError(pub.rows, pub.idx, E_port(port)),
                                  !.pc = "write"]
                 ELSE [pub EXCEPT !.notice = outcome,
                                  !.rows = MarkDone(pub.rows, pub.idx, POST_ID),
                                  !.pc = "write"]
    /\ PubFrame

\* Lines 341-344: the rows are written back and main returns 0.
PubWriteBack ==
    /\ pub.pc = "write"
    /\ WriteBack(pub.rows, pub.idx, 0)
    /\ PubFrame

NextPub ==
    \/ PubLoadConfig
    \/ PubSelect
    \/ PubGenerate
    \/ PubCreateDraft
    \/ PubNotify
    \/ PubWriteBack

SpecPub == InitPub /\ [][NextPub]_vars

-----------------------------------------------------------------------------
(* Properties.                                                             *)

\* The identities of the collected items.
CollectedIds == {collected[i].id : i \in 1..Len(collected)}

\* The run has left Loading.
Loaded == pc \notin {"Idle", "Loading"} /\ failedAt # "Loading"

\* The previous run ended because send_email raised.
PrevDispatchFailed == prev.outcome = "Failed" /\ prev.failedAt = "Dispatching"

\* C1: when send_email raises, the run has failed and state.json, seen
\* identities and last-run instant alike, is what it was when the run started.
C1_DispatchFailureKeepsState ==
    (pc = "Failed" /\ failedAt = "Dispatching")
        => (stateFile = fileAtStart /\ writes = 0)

C1_Witness ==
    /\ pc = "Failed" /\ failedAt = "Dispatching"
    /\ fileAtStart.kind = "json"
    /\ collected # <<>>
    /\ seen # fileAtStart.seen_ids
    /\ now > fileAtStart.last_run_utc_ts

\* C2 as stated: no collected item has an identity that some earlier run
\* committed.
C2_NoPriorCommittedIdentity == CollectedIds \cap priorCommitted = {}

\* C2 amended: no collected item has an identity of the seen set that was
\* persisted when the run started, the one the latest committed run wrote.
C2_NoLoadedIdentity == CollectedIds \cap fileAtStart.seen_ids = {}

C2_Witness ==
    /\ fileAtStart.kind = "json"
    /\ runNo >= 2
    /\ lastVerdict.result = "duplicate"
    /\ lastVerdict.eid \in fileAtStart.seen_ids
    /\ collected # <<>>

\* C3 as stated: a run right after a committed run over the same answers of
\* the sources collects nothing.
C3_SecondRunCollectsNothing ==
    (prev.outcome = "Done" /\ ~prev.srcDown /\ ~srcDown /\ now = last_run_ts)
        => collected = <<>>

\* C3 amended: a run after a committed run over the same answers of the
\* sources collects nothing, provided the committed run ended below the
\* per-run cap and its commit dropped no identity.
C3_SecondRunCollectsNothingUncapped ==
    (prev.outcome = "Done" /\ ~prev.srcDown /\ ~prev.capped /\ ~prev.evicted)
        => collected = <<>>

C3_Witness ==
    /\ prev.outcome = "Done" /\ ~prev.srcDown /\ ~prev.capped /\ ~prev.evicted
    /\ prev.admitted # {}
    /\ pc = "Ranking" /\ ~srcDown /\ fetches = NumFeeds
    /\ lastVerdict.result = "duplicate"
    /\ collected = <<>>

\* C4: the lower bound of a run is at least the lower bound of the run
\* before it, whether that run committed or failed.
C4_WindowMonotonic ==
    (Loaded /\ prev.windowed) => min_ts >= prev.min_ts

C4_Witness ==
    /\ Loaded /\ prev.windowed
    /\ prev.outcome = "Done"
    /\ min_ts = last_run_ts
    /\ min_ts > prev.min_ts

\* C5 as stated: the run after a failed dispatch has the same lower bound
\* and admits again every entry the failed run had admitted.
C5_SameWindowAfterFailure ==
    (PrevDispatchFailed /\ pc = "Ingesting")
        => /\ min_ts = prev.min_ts
           /\ \A e \in prev.admitted :
                 Verdict(e, fileAtStart.seen_ids, min_ts, now) = "admitted"

\* C5 amended: the run after a failed dispatch loads the same last-run
\* instant, its lower bound differs from the failed run's only when the
\* backfill horizon has moved past it, and every entry the failed run had
\* admitted whose creation instant is not below that bound is admitted again.
C5_RetryAfterFailure ==
    (PrevDispatchFailed /\ pc = "Ingesting")
        => /\ last_run_ts = prev.last_run_ts
           /\ (min_ts = prev.min_ts \/ min_ts > last_run_ts)
           /\ \A e \in prev.admitted :
                 parse_entry_time(e, now) >= min_ts
                    => Verdict(e, fileAtStart.seen_ids, min_ts, now) = "admitted"

C5_Witness ==
    /\ PrevDispatchFailed /\ pc = "Ingesting"
    /\ min_ts = prev.min_ts
    /\ \E e \in prev.admitted :
          /\ e.published # NoTime
          /\ Identity(e) \in CollectedIds
          /\ lastVerdict = [eid |-> Identity(e), result |-> "admitted"]

\* The stage changes a run can make; a failure can end any stage.
StageEdges ==
    { <<"Idle", "Loading">>, <<"Loading", "Ingesting">>,
      <<"Ingesting", "Ranking">>, <<"Ranking", "Rendering">>,
      <<"Rendering", "Dispatching">>, <<"Dispatching", "Committing">>,
      <<"Committing", "Done">>, <<"Done", "Loading">>, <<"Failed", "Loading">>,
      <<"Loading", "Failed">>, <<"Ingesting", "Failed">>,
      <<"Ranking", "Failed">>, <<"Rendering", "Failed">>,
      <<"Dispatching", "Failed">>, <<"Committing", "Failed">> }

\* C6 as stated: the stages follow in the fixed order, state.json is written
\* at most once per run, in Committing after send_email returned, and a run
\* that fails has written nothing: state.json is as it was when the run
\* started.
C6_StageOrderSingleCommit ==
    [][ /\ pc' # pc => <<pc, pc'>> \in StageEdges
        /\ stateFile' # stateFile => writes' = writes + 1
        /\ writes' > writes =>
              (pc = "Committing" /\ pc' = "Done" /\ delivered /\ writes = 0)
        /\ pc' = "Failed" => (writes' = 0 /\ stateFile' = fileAtStart') ]_vars

\* C7: with a corrupt state.json the run fails in Loading, before any feed
\* is fetched or any entry admitted, and writes nothing; with no state.json
\* the run goes on from an empty seen set.
C7_CorruptFatalAbsentEmpty ==
    /\ (fileAtStart.kind = "corrupt" /\ pc \notin {"Idle", "Loading"})
          => /\ pc = "Failed" /\ failedAt = "Loading"
             /\ fetches = 0 /\ collected = <<>> /\ seen = {}
             /\ writes = 0 /\ stateFile = fileAtStart
    /\ (fileAtStart.kind = "absent" /\ pc \notin {"Idle", "Loading"})
          => /\ failedAt # "Loading"
             /\ seen = CollectedIds

C7_Witness ==
    /\ fileAtStart.kind = "corrupt"
    /\ pc = "Failed" /\ failedAt = "Loading"
    /\ runNo = 2

\* C8 as stated: Loading never fails, with a missing or a corrupt state.json
\* the run reaches Ingesting with an empty state.
C8_LoadingNeverFatal ==
    (fileAtStart.kind \in {"absent", "corrupt"} /\ pc \notin {"Idle", "Loading"})
        => (failedAt # "Loading" /\ last_run_ts = 0)

\* C8 amended: Loading fails exactly when state.json is present and corrupt;
\* with a missing state.json the run reaches Ingesting with an empty state
\* (no last-run instant, nothing seen but what this run admits).
C8_LoadingFatalOnlyWhenCorrupt ==
    pc \notin {"Idle", "Loading"}
        => /\ (failedAt = "Loading") <=> (fileAtStart.kind = "corrupt")
           /\ fileAtStart.kind = "absent"
                 => (last_run_ts = 0 /\ seen \subseteq CollectedIds
                     /\ min_ts = loadedAt - backfill_hours * HOUR)

C8_Witness ==
    /\ fileAtStart.kind = "absent"
    /\ pc = "Ingesting" /\ fetches >= 1
    /\ last_run_ts = 0 /\ collected # <<>>

\* C9: every collected item was created at or after the lower bound of the
\* run, the greater of the loaded last-run instant and the clock at load
\* time minus the backfill horizon.
C9_CollectedWithinWindow ==
    Loaded =>
        \A i \in 1..Len(collected) :
            /\ collected[i].created_utc >= min_ts
            /\ collected[i].created_utc >= fileAtStart.last_run_utc_ts
            /\ collected[i].created_utc >= loadedAt - backfill_hours * HOUR

C9_Witness ==
    /\ pc = "Ingesting"
    /\ lastVerdict.result = "stale"
    /\ collected # <<>>
    /\ \E i \in 1..Len(collected) : collected[i].created_utc = min_ts

\* C10: no two collected items of a run have the same identity.
C10_NoDuplicateIdentityInRun ==
    \A i, j \in 1..Len(collected) :
        collected[i].id = collected[j].id => i = j

C10_Witness ==
    /\ pc = "Ingesting"
    /\ lastVerdict.result = "duplicate"
    /\ lastVerdict.eid \notin fileAtStart.seen_ids
    /\ lastVerdict.eid \in CollectedIds
    /\ feedIdx = 2

\* C11 as stated: the per-run cap is tested only once the whole batch of a
\* source has been processed, so the loop over a source is never left with
\* entries of its batch still unprocessed.
C11_CapCheckedOnlyAfterSource ==
    (pc = "Ingesting" /\ ip = "check") => entIdx > Len(batch)

\* C11 amended: the per-run cap (of at least 1) is tested after every admitted
\* item: the collected count never exceeds the cap, and while a source is in
\* progress or about to be fetched the count is below the cap.
C11_CapCheckedAfterEachItem ==
    /\ Len(collected) <= max_items
    /\ (pc = "Ingesting" /\ ip \in {"fetch", "entry"}) => Len(collected) < max_items

C11_Witness ==
    /\ pc = "Ingesting" /\ ip = "check"
    /\ Len(collected) = max_items
    /\ entIdx <= Len(batch)
    /\ Verdict(batch[entIdx], seen, min_ts, now) = "admitted"
    /\ feedIdx < NumFeeds

\* The identities of the items admitted last by this run, SEEN_LIMIT of them
\* at most: the most recently inserted members of the seen set.
LastInserted ==
    {discovered[i].id : i \in (Max(0, Len(discovered) - SEEN_LIMIT) + 1)..Len(discovered)}

\* C12: the committed seen collection holds at most SEEN_LIMIT identities, and
\* the identities dropped at commit are the oldest by insertion: the most
\* recently inserted ones, those admitted by the committed run, are retained.
C12_BoundedOldestEvicted ==
    pc = "Done" =>
        /\ Cardinality(stateFile.seen_ids) <= SEEN_LIMIT
        /\ LastInserted \subseteq stateFile.seen_ids

\* The text s, all in lower case, holds the keyword k.
HoldsKeyword(s, k) ==
    \E i \in 1..(Len(s) - Len(k) + 1) : \A j \in 1..Len(k) : s[i + j - 1] = k[j]

\* A findomme keyword is in the feed label f or in the title t, both given
\* in lower case.
TargetBMatch(f, t) ==
    \/ \E k \in {K_findomme, K_platform} : HoldsKeyword(f, k)
    \/ \E k \in {K_findomme, K_domme, K_loyalfans, K_fansly, K_onlyfans} :
          HoldsKeyword(t, k)

\* A paypig keyword is in the feed label or in the title.
TargetAMatch(f, t) ==
    \/ HoldsKeyword(f, K_paypig)
    \/ \E k \in {K_paypig, K_pay_pig, K_submissive, K_slave} : HoldsKeyword(t, k)

\* A media keyword is in the feed label or in the title.
MediaMatch(f, t) ==
    \/ \E k \in {K_media, K_manga} : HoldsKeyword(f, k)
    \/ \E k \in {K_movie, K_movies, K_tv, K_television, K_manga, K_comic,
                  K_comics, K_doujin} : HoldsKeyword(t, k)

\* A call of classify and compute_score has returned.
Scored == call.fn = "score" /\ call.done

\* C13: classify returns one of the four kinds, the first rule that matches
\* deciding: FINDOMME whenever a findomme keyword matches, whatever else
\* matches; PAYPIG only when no findomme keyword matches; MEDIA only when
\* neither matches; GENERAL only when nothing matches; letter case is ignored.
C13_ClassifyFirstMatchWins ==
    Scored =>
        LET f == lower(call.feed_name)
            t == lower(call.title)
            kind == call.result.kind
            b == TargetBMatch(f, t)
            a == TargetAMatch(f, t)
            m == MediaMatch(f, t)
        IN  /\ kind \in {"FINDOMME", "PAYPIG", "MEDIA", "GENERAL"}
            /\ (kind = "FINDOMME") <=> b
            /\ (kind = "PAYPIG") <=> (~b /\ a)
            /\ (kind = "MEDIA") <=> (~b /\ ~a /\ m)
            /\ (kind = "GENERAL") <=> (~b /\ ~a /\ ~m)

C13_Witness ==
    /\ Scored
    /\ call.result.kind = "FINDOMME"
    /\ TargetBMatch(<<>>, lower(call.title)) /\ ~HoldsKeyword(call.title, K_domme)
    /\ TargetAMatch(lower(call.feed_name), lower(call.title))
    /\ MediaMatch(lower(call.feed_name), lower(call.title))

\* The call was repeated with a question mark appended to the title.
AskedAgain == Scored /\ call.before # NoResult

\* C14: appending a question mark to a title that has none raises the score
\* by exactly 4 and changes nothing else: the kind is the same and the
\* signals are the former ones behind the label "question" (the list being
\* cut to six labels as before).
C14_QuestionMarkAddsFour ==
    AskedAgain =>
        /\ call.result.score = call.before.score + 4
        /\ call.result.kind = call.before.kind
        /\ call.result.signals = Take(<<"question">> \o call.before.signals, 6)

C14_Witness ==
    /\ AskedAgain
    /\ call.before.kind = "PAYPIG"
    /\ Len(call.before.signals) = 6
    /\ call.result.signals[6] = call.before.signals[5]
    /\ call.result.score = call.before.score + 4

\* Line 251 has run in this run.
Ranked ==
    \/ pc \in {"Rendering", "Dispatching", "Committing", "Done"}
    \/ pc = "Failed" /\ failedAt \in {"Rendering", "Dispatching"}

\* The place of item x in the order of admission.
DiscoveryRank(x) == CHOOSE k \in 1..Len(discovered) : discovered[k] = x

\* C15: after Ranking the collected list holds exactly the admitted items,
\* by score descending, equal scores by age in hours ascending, and items
\* equal on both in the order of their admission.
C15_RankedStable ==
    Ranked =>
        /\ Len(collected) = Len(discovered)
        /\ \A k \in 1..Len(discovered) :
              \E i \in 1..Len(collected) : collected[i] = discovered[k]
        /\ \A i, j \in 1..Len(collected) :
              i < j =>
                \/ collected[i].score > collected[j].score
                \/ /\ collected[i].score = collected[j].score
                   /\ collected[i].age_hours < collected[j].age_hours
                \/ /\ collected[i].score = collected[j].score
                   /\ collected[i].age_hours = collected[j].age_hours
                   /\ DiscoveryRank(collected[i]) < DiscoveryRank(collected[j])

C15_Witness ==
    /\ Ranked
    /\ collected # discovered
    /\ \E i \in 1..(Len(collected) - 1) :
          /\ collected[i].score = collected[i + 1].score
          /\ collected[i].age_hours = collected[i + 1].age_hours
    /\ \E i \in 1..(Len(collected) - 1) :
          /\ collected[i].score = collected[i + 1].score
          /\ collected[i].age_hours < collected[i + 1].age_hours

\* sec is made of the first items of list whose kind is in kinds, ten of
\* them at most, in the order of list.
FirstTenOfKinds(sec, list, kinds) ==
    LET upTo(i) == {j \in 1..i : list[j].kind \in kinds}
        total == Cardinality(upTo(Len(list)))
    IN  /\ Len(sec) = IF total < 10 THEN total ELSE 10
        /\ \A k \in 1..Len(sec) :
              \E i \in 1..Len(list) :
                  /\ list[i] = sec[k]
                  /\ list[i].kind \in kinds
                  /\ Cardinality(upTo(i)) = k

\* The split was called and has returned.
Split == call.fn = "split" /\ call.done

\* C16 as stated: PAYPIG, FINDOMME and MEDIA have a section each, holding the
\* first ten at most of the ranked items of that kind, and "other" holds the
\* first ten at most of the GENERAL items only.
C16_SectionPerCategory ==
    Split =>
        /\ FirstTenOfKinds(call.report.paypig, call.ranked, {"PAYPIG"})
        /\ FirstTenOfKinds(call.report.findomme, call.ranked, {"FINDOMME"})
        /\ FirstTenOfKinds(call.report.other, call.ranked, {"GENERAL"})
        /\ "media" \in DOMAIN call.report
        /\ FirstTenOfKinds(call.report.media, call.ranked, {"MEDIA"})

\* C16 amended: besides the high-priority section there are three sections:
\* PAYPIG and FINDOMME hold the first ten at most of the ranked items of
\* their kind, and "other" holds the first ten at most of the ranked items of
\* any other kind, MEDIA as well as GENERAL; MEDIA has no section of its own.
C16_TwoTargetSectionsAndOther ==
    Split =>
        /\ DOMAIN call.report = {"high_priority", "paypig", "findomme", "other"}
        /\ FirstTenOfKinds(call.report.paypig, call.ranked, {"PAYPIG"})
        /\ FirstTenOfKinds(call.report.findomme, call.ranked, {"FINDOMME"})
        /\ FirstTenOfKinds(call.report.other, call.ranked, {"MEDIA", "GENERAL"})

C16_Witness ==
    /\ Split
    /\ Len(call.ranked) > 10
    /\ Len(call.report.other) = 10
    /\ \E i \in 1..10 : call.report.other[i].kind = "MEDIA"
    /\ \E i \in 1..10 : call.report.other[i].kind = "GENERAL"
    /\ call.ranked[Len(call.ranked)].kind = "MEDIA"

\* The labels of a list of signals.
LabelsOf(signals) == {signals[i] : i \in 1..Len(signals)}

\* The feed name "Beginner findomme".
L_beginner_findomme == <<"B", "e", "g", "i", "n", "n", "e", "r", " ", "f", "i", "n", "d", "o", "m", "m", "e">>

\* The call of the scenario: "How do I start as a beginner findomme?" from
\* the feed "Beginner findomme", one hour old.
BeginnerScenario ==
    /\ Scored
    /\ call.title = T_beginner_findomme
    /\ call.feed_name = L_beginner_findomme
    /\ call.age_h = 1

\* C17: in the scenario the kind is FINDOMME, the signals hold question,
\* beginner, start (or a how-to label), target-feed and fresh, and the score
\* is strictly positive.
C17_BeginnerFindommeScenario ==
    BeginnerScenario =>
        /\ call.result.kind = "FINDOMME"
        /\ {"question", "beginner", "target-feed", "fresh"}
              \subseteq LabelsOf(call.result.signals)
        /\ {"start", "how-to", "how-do-i"} \cap LabelsOf(call.result.signals) # {}
        /\ call.result.score > 0

C17_Witness ==
    /\ BeginnerScenario
    /\ call.result.score = 17
    /\ call.result.signals =
          <<"question", "beginner", "start", "how-do-i", "target-feed", "fresh">>

\* The call of the scenario: "Weekly Megathread", 72 hours old, from any feed.
MegathreadScenario ==
    /\ Scored
    /\ call.title = T_weekly_megathread
    /\ call.age_h = 72

\* C18: in the scenario, whatever the feed, the signals hold megathread and
\* old, and the score is at most the score before the penalties (question
\* mark, keywords and feed relevance) minus 4 and minus 3.
C18_MegathreadOldScenario ==
    MegathreadScenario =>
        /\ {"megathread", "old"} \subseteq LabelsOf(call.result.signals)
        /\ call.result.score
              <= ScoreBonuses(call.feed_name, call.title).score - 4 - 3

C18_Witness ==
    /\ MegathreadScenario
    /\ call.result.signals = <<"target-feed", "megathread", "old">>
    /\ call.result.score = 0 - 5

\* The four conditions of admission, on the entry at hand in this state.
Admissible(entry) ==
    LET ident == IF entry.id # <<>> THEN entry.id ELSE entry.link
        created == IF entry.published # NoTime THEN entry.published + TzShift
                   ELSE IF entry.updated # NoTime THEN entry.updated + TzShift
                   ELSE now
    IN  /\ ident # <<>>
        /\ ident \notin seen
        /\ created >= min_ts
        /\ strip(entry.title) # <<>>
        /\ strip(entry.link) # <<>>

\* C19: an entry is admitted exactly when it has a non-empty identity (id,
\* else link) that is not in the seen set, a creation instant not below the
\* lower bound, and a title and a link that are not empty once trimmed. An
\* admitted entry adds its own identity to seen and one item, at the end, to
\* collected; a rejected entry changes neither, and no other step of
\* Ingesting does.
C19_AdmissionFrame ==
    [][ /\ (pc = "Ingesting" /\ ip = "entry" /\ entIdx' = entIdx + 1) =>
              IF Admissible(batch[entIdx])
              THEN /\ seen' = seen \cup {Identity(batch[entIdx])}
                   /\ Cardinality(seen') = Cardinality(seen) + 1
                   /\ Len(collected') = Len(collected) + 1
                   /\ SubSeq(collected', 1, Len(collected)) = collected
                   /\ collected'[Len(collected')].id = Identity(batch[entIdx])
                   /\ lastVerdict'.result = "admitted"
              ELSE /\ seen' = seen
                   /\ collected' = collected
                   /\ lastVerdict'.result \in
                         {"no-identity", "duplicate", "stale", "incomplete"}
        /\ (pc = "Ingesting" /\ ip # "entry") =>
              (seen' = seen /\ collected' = collected) ]_vars

C19_Witness ==
    /\ pc = "Ingesting"
    /\ lastVerdict.result = "incomplete"
    /\ lastVerdict.eid \notin seen
    /\ collected # <<>>
    /\ seen = fileAtStart.seen_ids \cup CollectedIds
    /\ Len(collected) = 2

\* The place of a feed name in the list of build_feeds.
FeedRank(name) == CHOOSE k \in 1..NumFeeds : build_feeds[k] = name

\* C20: the sources are taken in the order of build_feeds, one after the
\* other; the items are admitted source by source in that order; and once the
\* collected count has reached the cap, the run fetches no further source
\* and admits no further item.
C20_EarlierSourcesFavored ==
    [][ /\ (feedIdx' # feedIdx /\ runNo' = runNo) => feedIdx' = feedIdx + 1
        /\ \A i, j \in 1..Len(discovered') :
              i < j => FeedRank(discovered'[i].feed) <= FeedRank(discovered'[j].feed)
        /\ (Len(collected) >= max_items /\ runNo' = runNo) =>
              /\ Len(collected') = Len(collected)
              /\ discovered' = discovered
              /\ feedIdx' = feedIdx
              /\ fetches' = fetches ]_vars

C20_Witness ==
    /\ pc = "Rendering"
    /\ Len(collected) = max_items
    /\ feedIdx = 1 /\ fetches = 1
    /\ \E k \in 1..Len(fixture[2]) :
          Verdict(fixture[2][k], seen, min_ts, now) = "admitted"

\* Lines 93-130: the running (score, reasons) when the age tiers are reached.
BeforeAgeTier(feed_name, title) ==
    LET a3 == ScoreBonuses(feed_name, title)
    IN  IF AnyIn({K_megathread, K_weekly_thread, K_daily_thread,
                  K_monthly_thread}, lower(title))
        THEN Hit(a3, 0 - 4, "megathread") ELSE a3

\* What the age of the call has added to the score.
AgeDelta ==
    call.result.score - BeforeAgeTier(call.feed_name, call.title).score

\* The signals of the call are those collected before the age tiers,
\* followed by the labels of tail, cut to six.
AgeLabels(tail) ==
    call.result.signals
        = Take(BeforeAgeTier(call.feed_name, call.title).reasons \o tail, 6)

\* C21 as stated: every age in whole hours is in one of the four tiers, so
\* the age always moves the score, by +3, +2, +1 or -3.
C21_ExactlyOneAgeTier ==
    Scored => AgeDelta \in {3, 2, 1, 0 - 3}

\* C21: at most one age tier applies. An age of at most 2 hours adds 3 and
\* the label fresh, otherwise at most 6 hours adds 2 and the label recent,
\* otherwise at most 12 hours adds 1 and no label, 48 hours or more takes 3
\* off with the label old, and an age from 13 to 47 hours is in no tier:
\* score and signals are left as they were.
C21_AtMostOneAgeTier ==
    Scored =>
        LET a == call.age_h
        IN  /\ a <= 2 => (AgeDelta = 3 /\ AgeLabels(<<"fresh">>))
            /\ (2 < a /\ a <= 6) => (AgeDelta = 2 /\ AgeLabels(<<"recent">>))
            /\ (6 < a /\ a <= 12) => (AgeDelta = 1 /\ AgeLabels(<<>>))
            /\ (12 < a /\ a < 48) => (AgeDelta = 0 /\ AgeLabels(<<>>))
            /\ a >= 48 => (AgeDelta = 0 - 3 /\ AgeLabels(<<"old">>))

C21_Witness ==
    /\ Scored
    /\ call.age_h = 47
    /\ call.result.score = 0 - 4
    /\ call.result.signals = <<"megathread">>

\* The labels of compute_score in the order its rules are tried.
RuleLabels == <<"question", "beginner", "start", "how-do-i", "how-to",
                "advice", "help", "platform", "loyalfans", "teamviewer",
                "boundaries", "addiction", "safe", "target-feed",
                "megathread", "fresh", "recent", "old">>

LabelRank(l) == CHOOSE k \in 1..Len(RuleLabels) : RuleLabels[k] = l

\* The sum of the weights of the keyword rules from the i-th on that the
\* lowered title t triggers.
RECURSIVE KeywordWeights(_, _)
KeywordWeights(t, i) ==
    IF i > Len(keywords) THEN 0
    ELSE (IF Contains(t, keywords[i].term) THEN keywords[i].pts ELSE 0)
            + KeywordWeights(t, i + 1)

\* The signed sum of the weights of all the rules the call triggers.
TriggeredWeights ==
    LET t == lower(call.title)
        f == lower(call.feed_name)
        a == call.age_h
    IN  (IF Contains(call.title, <<"?">>) THEN 4 ELSE 0)
        + KeywordWeights(t, 1)
        + (IF AnyIn({K_paypig, K_findomme, K_platform, K_teamviewer}, f)
           THEN 2 ELSE 0)
        + (IF AnyIn({K_megathread, K_weekly_thread, K_daily_thread,
                     K_monthly_thread}, t) THEN 0 - 4 ELSE 0)
        + (IF a <= 2 THEN 3 ELSE IF a <= 6 THEN 2 ELSE IF a <= 12 THEN 1
           ELSE IF a >= 48 THEN 0 - 3 ELSE 0)

\* C22 as stated: the signals returned by compute_score hold no label twice,
\* are six at most and stand in the order their rules are tried; the score
\* is the signed sum of the weights of all the rules triggered, those whose
\* label the cut to six has dropped included.
C22_SignalsDistinctCappedOrdered ==
    Scored =>
        LET s == call.result.signals
        IN  /\ Len(s) <= 6
            /\ \A i, j \in 1..Len(s) : i < j => s[i] # s[j]
            /\ \A i, j \in 1..Len(s) :
                  i < j => LabelRank(s[i]) <= LabelRank(s[j])
            /\ call.result.score = TriggeredWeights

\* The stages a run is in once the loop over the feeds is over.
PastIngesting ==
    \/ pc \in {"Ranking", "Rendering", "Dispatching", "Committing", "Done"}
    \/ pc = "Failed" /\ failedAt \in {"Rendering", "Dispatching"}

\* C23: a feed that returns no entries, or that errors, adds nothing to the
\* collected items and does not end the run. No run fails while it goes through the feeds; after such a feed
\* the run goes on with the next feed, or ranks when it was the last one; a
\* run that is past the feeds with fewer items than the cap has fetched
\* every feed; and a mail that is sent takes the run to Committing.
C23_EmptySourceRunContinues ==
    /\ [](/\ failedAt # "Ingesting"
          /\ (PastIngesting /\ Len(collected) < max_items)
                => fetches = NumFeeds)
    /\ [][ /\ pc = "Ingesting" => pc' \in {"Ingesting", "Ranking"}
           /\ (pc = "Ingesting" /\ ip = "fetch" /\ batch' = <<>>
                  /\ fetches' # fetches) =>
                 (ip' = "check" /\ collected' = collected /\ seen' = seen)
           /\ (pc = "Ingesting" /\ ip = "check" /\ batch = <<>>
                  /\ (pc' # pc \/ ip' # ip)) =>
                 /\ collected' = collected /\ seen' = seen
                 /\ IF feedIdx < NumFeeds
                    THEN pc' = "Ingesting" /\ ip' = "fetch"
                         /\ feedIdx' = feedIdx + 1
                    ELSE pc' = "Ranking"
           /\ (pc = "Dispatching" /\ delivered' /\ ~delivered) =>
                 pc' = "Committing" ]_vars

\* C24: the high-priority section is made of the first ten at most, in
\* ranked order, of the ranked items whose score is at least 10 and whose age
\* is at most 12 hours; nothing else is in it; and being in it does not take
\* an item out of the section of its kind.
C24_HighPriorityFirstTen ==
    Split =>
        LET hp == call.report.high_priority
            list == call.ranked
            high(x) == x.score >= 10 /\ x.age_hours <= 12
            upTo(i) == {j \in 1..i : high(list[j])}
            total == Cardinality(upTo(Len(list)))
        IN  /\ Len(hp) = IF total < 10 THEN total ELSE 10
            /\ \A k \in 1..Len(hp) :
                  /\ hp[k].score >= 10 /\ hp[k].age_hours <= 12
                  /\ \E i \in 1..Len(list) :
                        list[i] = hp[k] /\ Cardinality(upTo(i)) = k
            /\ FirstTenOfKinds(call.report.paypig, list, {"PAYPIG"})
            /\ FirstTenOfKinds(call.report.findomme, list, {"FINDOMME"})
            /\ FirstTenOfKinds(call.report.other, list,
                               {"MEDIA", "GENERAL"})

C24_Witness ==
    /\ Split
    /\ Len(call.report.high_priority) = 10
    /\ Len(SelectSeq(call.ranked, IsHigh)) > 10
    /\ \E k \in 1..10 :
          /\ call.report.high_priority[k].score = 10
          /\ call.report.high_priority[k].age_hours = 12
    /\ \E k \in 1..10, j \in 1..Len(call.report.findomme) :
          call.report.high_priority[k] = call.report.findomme[j]


\* The headings of the two bodies, and the sections, in the order of lines
\* 288-291 and 500-510.
TextHeadings == <<N_high, N_paypig, N_findomme, N_other>>
HtmlHeadings == <<"<h2>HIGH PRIORITY</h2>", "<h2>PAYPIG LEADS</h2>",
                  "<h2>FINDOMME LEADS</h2>", "<h2>OTHER</h2>">>
ReportSections ==
    <<report.high_priority, report.paypig, report.findomme, report.other>>

\* The places of piece x in the sequence xs.
PlacesOf(xs, x) == {i \in 1..Len(xs) : xs[i] = x}

\* C25: when the report is built and about to be sent (stage Dispatching;
\* no later step changes it), both bodies name every one of the four
\* sections exactly once, in the order high priority, paypig, findomme,
\* other. In the plain text a heading is followed by a line of dashes of its
\* length and then by the line "None" when the section has no items and by
\* the line of item 1 otherwise; in the HTML a heading is followed by the
\* "No items." element when the section has no items and by a table
\* otherwise. This holds for a run that collected nothing as well.
C25_AllSectionsRendered ==
    pc = "Dispatching" =>
        LET T == mail.body_text
            H == mail.body_html
            PT == [k \in 1..4 |-> PlacesOf(T, TextHeadings[k])]
            PH == [k \in 1..4 |-> PlacesOf(H, HtmlHeadings[k])]
            tp == [k \in 1..4 |-> CHOOSE i \in PT[k] : TRUE]
            hp == [k \in 1..4 |-> CHOOSE i \in PH[k] : TRUE]
        IN  /\ \A k \in 1..4 :
                  Cardinality(PT[k]) = 1 /\ Cardinality(PH[k]) = 1
            /\ \A k \in 1..3 : tp[k] < tp[k + 1] /\ hp[k] < hp[k + 1]
            /\ \A k \in 1..4 :
                  /\ tp[k] + 2 <= Len(T)
                  /\ T[tp[k] + 1] = [c \in 1..Len(TextHeadings[k]) |-> "-"]
                  /\ IF ReportSections[k] = <<>>
                     THEN T[tp[k] + 2] = <<"None">>
                     ELSE SubSeq(T[tp[k] + 2], 1, 2) = <<"1", ". [">>
                  /\ hp[k] + 1 <= Len(H)
                  /\ IF ReportSections[k] = <<>>
                     THEN H[hp[k] + 1] = "<div class=\"empty\">No items.</div>"
                     ELSE H[hp[k] + 1] = "<table>"

C25_Witness ==
    /\ runNo = 2 /\ pc = "Dispatching"
    /\ collected = <<>>
    /\ prev.outcome = "Done" /\ prev.admitted # {}
    /\ Cardinality(PlacesOf(mail.body_text, <<"None">>)) = 4
    /\ mail.subject = <<"YMS Reddit leads: ", "0", " new items">>

\* C26 as stated: in either script the age of an item is the whole hours
\* from its creation instant to the clock, rounded down, and 0 when the
\* creation instant is still to come; it is never negative.
C26_AgeClampedEveryVariant ==
    (call.fn = "age" /\ call.done) =>
        /\ call.age_h >= 0
        /\ call.age_h = IF call.created_ts > now THEN 0
                        ELSE (now - call.created_ts) \div HOUR

\* C27: a run that starts from a committed state.json collects no item
\* whose creation instant is earlier than the last-run instant of that file;
\* a run that starts from a state.json that does not hold JSON collects
\* nothing; the last-run instant of a committed state.json never goes back
\* and a state.json that does not hold JSON stays as it is. So an item that
\* a committed run left out and that was created before that run's commit
\* is collected by no later run.
C27_MissedOlderItemNeverCollected ==
    /\ []((Loaded /\ fileAtStart.kind = "json") =>
            \A i \in 1..Len(collected) :
                collected[i].created_utc >= fileAtStart.last_run_utc_ts)
    /\ []((Loaded /\ fileAtStart.kind = "corrupt") => collected = <<>>)
    /\ [][ /\ (stateFile.kind = "json" /\ stateFile'.kind = "json")
                => stateFile'.last_run_utc_ts >= stateFile.last_run_utc_ts
           /\ stateFile.kind = "json" => stateFile'.kind # "absent"
           /\ stateFile.kind = "corrupt" => stateFile' = stateFile ]_vars

C27_Witness ==
    /\ runNo >= 2 /\ pc = "Done"
    /\ prev.outcome = "Done" /\ prev.capped
    /\ \E f \in 1..NumFeeds :
          \E k \in 1..Len(fixture[f]) :
              LET e == fixture[f][k]
              IN  /\ e \notin prev.admitted
                  /\ Identity(e) \notin fileAtStart.seen_ids
                  /\ e.published # NoTime
                  /\ mktime(e.published) >= prev.min_ts
                  /\ mktime(e.published) < fileAtStart.last_run_utc_ts
                  /\ Identity(e) \notin CollectedIds
                  /\ Verdict(e, seen, min_ts, now) = "stale"
    /\ fetches = NumFeeds

\* main has selected a row and is over: it has returned or an exception
\* has left it.
PubOver == pub.pc \in {"returned", "raised"} /\ pub.idx # 0

\* C28 as stated: when an invocation of main that selected a row is over,
\* the file holds as many rows as before; every row but the first todo row
\* holds what it held; and the first todo row is no longer todo: it is done,
\* with the id of the draft, exactly when the content was generated and the
\* draft was created, whatever became of the notification mail, and it is
\* error with a message otherwise.
C28_OneRowMarked ==
    PubOver =>
        LET before == pub.file0.rows
            after == pub.file.rows
            sel == read_first_todo_row(before)
        IN  /\ Len(after) = Len(before)
            /\ \A i \in 1..Len(before) :
                  i # sel =>
                      \A c \in DOMAIN before[i] : after[i][c] = before[i][c]
            /\ lower(strip(after[sel].status)) # S_todo
            /\ IF pub.generated /\ pub.drafted
               THEN /\ after[sel].status = S_done
                    /\ after[sel].wp_post_id = str(POST_ID)
               ELSE /\ after[sel].status = S_error
                    /\ after[sel].last_error # <<>>

=============================================================================
